---- MODULE Spec2Model ----
(***************************************************************************)
(* Disk accounting of bcachefs (libbcachefs/disk_accounting.c): the        *)
(* in-memory counter table (an eytzinger array of accounting_mem_entry     *)
(* with per-CPU live and GC shadow counters), its mark_lock discipline,    *)
(* the update pipeline (bch2_disk_accounting_mod, commit-time              *)
(* bch2_accounting_mem_mod_locked) and the GC pass (gc_start, gc_done,     *)
(* gc_free, compaction).                                                   *)
(***************************************************************************)
EXTENDS Integers, Sequences, FiniteSets, TLC

(***************************************************************************)
(* Bounds of the model.                                                    *)
(***************************************************************************)
\* threads of the concurrent specification
NThreads == 2
\* CPUs, i.e. shards of every per-CPU counter vector
NCpus == 2
\* counters are u64 in the code; the model keeps them modulo CounterMod
CounterMod == 256
\* bytes of a serialized accounting position that the model keeps
PosBytes == 7

Threads == 1..NThreads
Cpus == 1..NCpus

(***************************************************************************)
(* Accounting positions (struct disk_accounting_pos) and keys (struct bpos)*)
(***************************************************************************)
\* BCH_DISK_ACCOUNTING_TYPES(), in enum order; a tag past the end of the
\* list is an unknown type (>= BCH_DISK_ACCOUNTING_TYPE_NR)
TypeNames ==
    <<"nr_inodes", "persistent_reserved", "replicas", "dev_data_type",
      "compression", "snapshot", "btree", "rebalance_work", "inum">>

TypeOrd(t) == (CHOOSE i \in 1..Len(TypeNames) : TypeNames[i] = t) - 1

BCH_DISK_ACCOUNTING_TYPE_NR == Len(TypeNames)

\* pad a byte string with zeros to the width of a bpos
Pad(s) == s \o [i \in 1..(PosBytes - Len(s)) |-> 0]

\* bubble_sort(k->replicas.devs, k->replicas.nr_devs, u8_cmp): one pass
\* swaps every adjacent pair that is out of order; passes repeat until a
\* pass swaps nothing
RECURSIVE BubblePass(_, _)
BubblePass(s, i) ==
    IF i >= Len(s) THEN s
    ELSE IF s[i] > s[i + 1]
         THEN BubblePass([s EXCEPT ![i] = s[i + 1], ![i + 1] = s[i]], i + 1)
         ELSE BubblePass(s, i + 1)

RECURSIVE bubble_sort(_)
bubble_sort(s) ==
    LET p == BubblePass(s, 1)
    IN  IF p = s THEN s ELSE bubble_sort(p)

\* disk_accounting_pos_to_bpos: the position's bytes, tag first, so that
\* bpos order is the byte-for-byte order of the serialization
disk_accounting_pos_to_bpos(k) ==
    CASE k.type = "replicas" ->
            Pad(<<TypeOrd(k.type), k.data_type, Len(k.devs), k.nr_required>>
                \o k.devs)
      [] k.type = "dev_data_type" ->
            Pad(<<TypeOrd(k.type), k.dev, k.data_type>>)
      [] k.type = "persistent_reserved" ->
            Pad(<<TypeOrd(k.type), k.nr_replicas>>)
      [] k.type = "unknown" ->
            Pad(<<BCH_DISK_ACCOUNTING_TYPE_NR>>)
      [] OTHER ->
            Pad(<<TypeOrd(k.type)>>)

\* the tag of a key (bpos_to_disk_accounting_pos(...).type)
BposType(p) == p[1]

\* bch2_disk_accounting_mod's "Normalize:" switch
NormalizeNone(k) == k

NormalizePos(k) ==
    IF k.type = "replicas" THEN [k EXCEPT !.devs = bubble_sort(k.devs)] ELSE k

\* accounting_key_init: the key an update carries
AccountingKeyInitDropsLast(k, d) ==
    [p |-> disk_accounting_pos_to_bpos(k),
     d |-> [i \in 1..Len(d) |-> IF i = Len(d) THEN 0 ELSE d[i]]]

accounting_key_init(k, d) ==
    [p |-> disk_accounting_pos_to_bpos(k), d |-> d]

\* bpos_to_disk_accounting_pos: the position a key's bytes stand for
bpos_to_disk_accounting_pos(p) ==
    CASE BposType(p) >= BCH_DISK_ACCOUNTING_TYPE_NR -> [type |-> "unknown"]
      [] BposType(p) = TypeOrd("replicas") ->
            [type |-> "replicas", data_type |-> p[2], nr_required |-> p[4],
             devs |-> [i \in 1..(IF 4 + p[3] < PosBytes THEN p[3]
                                 ELSE PosBytes - 4) |-> p[4 + i]]]
      [] BposType(p) = TypeOrd("dev_data_type") ->
            [type |-> "dev_data_type", dev |-> p[2], data_type |-> p[3]]
      [] BposType(p) = TypeOrd("persistent_reserved") ->
            [type |-> "persistent_reserved", nr_replicas |-> p[2]]
      [] OTHER -> [type |-> TypeNames[BposType(p) + 1]]

\* bpos_successor: the next position in bpos order
RECURSIVE BposInc(_, _)
BposInc(p, i) ==
    IF i = 0 THEN p
    ELSE IF p[i] < 255 THEN [p EXCEPT ![i] = @ + 1]
    ELSE BposInc([p EXCEPT ![i] = 0], i - 1)

bpos_successor(p) == BposInc(p, Len(p))

\* accounting_to_replicas: TRUE and the replicas entry for a replicas key
accounting_to_replicas(p) == BposType(p) = TypeOrd("replicas")

\* the replicas entry of a replicas key: its bytes after the tag
ReplicasEntry(p) == SubSeq(p, 2, Len(p))

\* accounting_pos_cmp / bpos_cmp: -1, 0 or 1
RECURSIVE BposCmpFrom(_, _, _)
BposCmpFrom(a, b, i) ==
    IF i > Len(a) THEN 0
    ELSE IF a[i] < b[i] THEN -1
    ELSE IF a[i] > b[i] THEN 1
    ELSE BposCmpFrom(a, b, i + 1)

accounting_pos_cmp(a, b) == BposCmpFrom(a, b, 1)

\* error codes
BCH_ERR_ok == "ok"
BCH_ERR_ENOMEM_disk_accounting == "ENOMEM_disk_accounting"
BCH_ERR_btree_insert_need_mark_replicas == "btree_insert_need_mark_replicas"

\* the end of the fields of a key's type, as a count of bytes of the bpos
\* (field_end(acc_k, <type>), replicas_entry_bytes for a replicas key)
FieldEnd(p) ==
    CASE BposType(p) = TypeOrd("replicas") -> IF 4 + p[3] < PosBytes
                                              THEN 4 + p[3] ELSE PosBytes
      [] BposType(p) = TypeOrd("dev_data_type") -> 3
      [] BposType(p) = TypeOrd("persistent_reserved") -> 2
      [] BposType(p) >= BCH_DISK_ACCOUNTING_TYPE_NR -> PosBytes
      [] OTHER -> 1

\* bch2_accounting_validate(c, k, flags): the first check that fails
bch2_accounting_validate(p, bversion) ==
    LET nr_devs     == p[3]
        nr_required == p[4]
        devs        == [i \in 1..(FieldEnd(p) - 4) |-> p[4 + i]]
        replicas    == accounting_to_replicas(p)
    IN  IF bversion = 0 THEN "accounting_key_version_0"
        ELSE IF replicas /\ nr_devs = 0
        THEN "accounting_key_replicas_nr_devs_0"
        ELSE IF replicas /\ (\/ nr_required > nr_devs
                             \/ (nr_required > 1 /\ nr_required = nr_devs))
        THEN "accounting_key_replicas_nr_required_bad"
        ELSE IF replicas /\ \E i \in 1..(Len(devs) - 1) : devs[i] >= devs[i + 1]
        THEN "accounting_key_replicas_devs_unsorted"
        ELSE IF \E i \in (FieldEnd(p) + 1)..PosBytes : p[i] # 0
        THEN "accounting_key_junk_at_end"
        ELSE BCH_ERR_ok

(***************************************************************************)
(* Per-CPU counter vectors.  A vector is one sequence of counters per CPU; *)
(* NullVec is the NULL __percpu pointer.                                   *)
(***************************************************************************)
NullVec == << >>

ZeroCounters(nr) == [i \in 1..nr |-> 0]

\* __alloc_percpu_gfp(nr * sizeof(u64), ...): zeroed on every CPU
AllocPercpu(nr) == [c \in Cpus |-> ZeroCounters(nr)]

RECURSIVE SumCpus(_, _, _)
SumCpus(v, i, c) ==
    IF c = 0 THEN 0 ELSE (v[c][i] + SumCpus(v, i, c - 1)) % CounterMod

\* percpu_u64_get(v + i): the sum of counter i over the CPUs
percpu_u64_get(v, i) == SumCpus(v, i, NCpus)

\* this_cpu_add(v[i], d[i]) for every counter, on CPU c
ThisCpuAdd(v, c, d) ==
    [v EXCEPT ![c] = [i \in 1..Len(v[c]) |-> (v[c][i] + d[i]) % CounterMod]]

\* bch2_accounting_mem_read_counters(acc, idx, v, nr, gc)
ReadCounters(e, gc) ==
    LET vec == IF gc THEN e.v1 ELSE e.v0
    IN  [i \in 1..e.nr_counters |-> percpu_u64_get(vec, i)]

(***************************************************************************)
(* Eytzinger array (eytzinger0 functions): index i has children 2i+1 and   *)
(* 2i+2;                                                                   *)
(* indices are 0-based as in the code, table[i + 1] is data[i].            *)
(***************************************************************************)
eytzinger0_child(i, child) == 2 * i + 1 + child

RECURSIVE Eytz0FindFrom(_, _, _)
Eytz0FindFrom(data, search, i) ==
    IF i >= Len(data) THEN i
    ELSE LET res == accounting_pos_cmp(search, data[i + 1].pos)
         IN  IF res = 0 THEN i
             ELSE Eytz0FindFrom(data, search,
                                eytzinger0_child(i, IF res > 0 THEN 1 ELSE 0))

\* eytzinger0_find: the index of the entry, or an index >= nr
eytzinger0_find(data, search) == Eytz0FindFrom(data, search, 0)

\* the indices 0..nr-1 in in-order of the implicit tree
RECURSIVE Eytz0InOrder(_, _)
Eytz0InOrder(i, nr) ==
    IF i >= nr THEN << >>
    ELSE Eytz0InOrder(eytzinger0_child(i, 0), nr) \o <<i>>
         \o Eytz0InOrder(eytzinger0_child(i, 1), nr)

\* insertion of one entry into a sequence sorted by accounting_pos_cmp
RECURSIVE SortedInsert(_, _)
SortedInsert(s, e) ==
    IF s = << >> THEN <<e>>
    ELSE IF accounting_pos_cmp(e.pos, Head(s).pos) < 0 THEN <<e>> \o s
    ELSE <<Head(s)>> \o SortedInsert(Tail(s), e)

RECURSIVE SortByPos(_)
SortByPos(s) ==
    IF s = << >> THEN << >> ELSE SortedInsert(SortByPos(Tail(s)), Head(s))

\* eytzinger0_sort: the entries, sorted by accounting_pos_cmp, laid out so
\* that the in-order walk of the implicit tree visits them in sorted order
eytzinger0_sort(data) ==
    LET sorted == SortByPos(data)
        order  == Eytz0InOrder(0, Len(data))
    IN  [i \in 1..Len(data) |->
            sorted[CHOOSE j \in 1..Len(data) : order[j] = i - 1]]

\* eytzinger0_find_ge: the index of the smallest entry >= search, or >= nr
eytzinger0_find_ge(data, search) ==
    LET ge == {i \in 1..Len(data) : accounting_pos_cmp(data[i].pos, search) >= 0}
    IN  IF ge = {} THEN Len(data)
        ELSE (CHOOSE i \in ge : \A j \in ge :
                  accounting_pos_cmp(data[i].pos, data[j].pos) <= 0) - 1

(***************************************************************************)
(* The counter table (struct bch_accounting_mem): operations that run with *)
(* the exclusive side of mark_lock held.                                   *)
(***************************************************************************)

\* where an allocation of __bch2_accounting_mem_insert fails, if any
InsertFails == {"none", "v0", "v1", "push"}

\* __bch2_accounting_mem_insert(c, a): the returned error and the new array.
\* a is the key [p, bversion, d]; fail names the allocation that fails.
\* On failure both vectors are freed and the array is as before.
MemInsertKeepsPushed(data, gc_run, a, fail) ==
    LET n == [pos         |-> a.p,
              bversion    |-> a.bversion,
              nr_counters |-> Len(a.d),
              v0          |-> AllocPercpu(Len(a.d)),
              v1          |-> IF gc_run THEN AllocPercpu(Len(a.d)) ELSE NullVec]
    IN  IF eytzinger0_find(data, a.p) < Len(data)
        THEN [ret |-> BCH_ERR_ok, data |-> data]
        ELSE IF fail = "v0"
        THEN [ret |-> BCH_ERR_ENOMEM_disk_accounting, data |-> data]
        ELSE IF fail \in {"v1", "push"}
        THEN [ret  |-> BCH_ERR_ENOMEM_disk_accounting,
              data |-> eytzinger0_sort(Append(data, [n EXCEPT !.v1 = NullVec]))]
        ELSE [ret |-> BCH_ERR_ok, data |-> eytzinger0_sort(Append(data, n))]

MemInsertNoRecheck(data, gc_run, a, fail) ==
    LET n == [pos         |-> a.p,
              bversion    |-> a.bversion,
              nr_counters |-> Len(a.d),
              v0          |-> AllocPercpu(Len(a.d)),
              v1          |-> IF gc_run THEN AllocPercpu(Len(a.d)) ELSE NullVec]
    IN  IF fail = "v0" \/ (gc_run /\ fail = "v1") \/ fail = "push"
        THEN [ret |-> BCH_ERR_ENOMEM_disk_accounting, data |-> data]
        ELSE [ret |-> BCH_ERR_ok, data |-> eytzinger0_sort(Append(data, n))]

MemInsertNoSort(data, gc_run, a, fail) ==
    LET n == [pos         |-> a.p,
              bversion    |-> a.bversion,
              nr_counters |-> Len(a.d),
              v0          |-> AllocPercpu(Len(a.d)),
              v1          |-> IF gc_run THEN AllocPercpu(Len(a.d)) ELSE NullVec]
    IN  IF eytzinger0_find(data, a.p) < Len(data)
        THEN [ret |-> BCH_ERR_ok, data |-> data]
        ELSE IF fail = "v0" \/ (gc_run /\ fail = "v1") \/ fail = "push"
        THEN [ret |-> BCH_ERR_ENOMEM_disk_accounting, data |-> data]
        ELSE [ret |-> BCH_ERR_ok, data |-> Append(data, n)]

MemInsertNoShadow(data, gc_run, a, fail) ==
    LET n == [pos         |-> a.p,
              bversion    |-> a.bversion,
              nr_counters |-> Len(a.d),
              v0          |-> AllocPercpu(Len(a.d)),
              v1          |-> NullVec]
    IN  IF eytzinger0_find(data, a.p) < Len(data)
        THEN [ret |-> BCH_ERR_ok, data |-> data]
        ELSE IF fail = "v0" \/ fail = "push"
        THEN [ret |-> BCH_ERR_ENOMEM_disk_accounting, data |-> data]
        ELSE [ret |-> BCH_ERR_ok, data |-> eytzinger0_sort(Append(data, n))]

__bch2_accounting_mem_insert(data, gc_run, a, fail) ==
    LET n == [pos         |-> a.p,
              bversion    |-> a.bversion,
              nr_counters |-> Len(a.d),
              v0          |-> AllocPercpu(Len(a.d)),
              v1          |-> IF gc_run THEN AllocPercpu(Len(a.d)) ELSE NullVec]
    IN  \* raced with another insert, already present:
        IF eytzinger0_find(data, a.p) < Len(data)
        THEN [ret |-> BCH_ERR_ok, data |-> data]
        \* !n.v[0], !n.v[1] (only when gc_running), darray_push() failing
        ELSE IF fail = "v0" \/ (gc_run /\ fail = "v1") \/ fail = "push"
        THEN [ret |-> BCH_ERR_ENOMEM_disk_accounting, data |-> data]
        ELSE [ret |-> BCH_ERR_ok, data |-> eytzinger0_sort(Append(data, n))]

\* accounting_mem_entry_is_zero: every counter sums to zero over the CPUs,
\* in the live vector and, when there is one, in the shadow vector
EntryIsZeroLiveOnly(e) ==
    \A i \in 1..e.nr_counters : percpu_u64_get(e.v0, i) = 0

accounting_mem_entry_is_zero(e) ==
    \A i \in 1..e.nr_counters :
        ~ (\/ percpu_u64_get(e.v0, i) # 0
           \/ (e.v1 # NullVec /\ percpu_u64_get(e.v1, i) # 0))

MemGcDropsAll(data) == << >>

\* bch2_accounting_mem_gc: drop the zero entries, keep the others, re-sort
bch2_accounting_mem_gc(data) ==
    eytzinger0_sort(SelectSeq(data, LAMBDA e : ~accounting_mem_entry_is_zero(e)))

\* bch2_accounting_free_counters(acc, gc)
bch2_accounting_free_counters(data, gc) ==
    [i \in 1..Len(data) |->
        IF gc THEN [data[i] EXCEPT !.v1 = NullVec]
              ELSE [data[i] EXCEPT !.v0 = NullVec]]

\* bch2_gc_accounting_start(c): entries before failAt get a shadow vector;
\* the allocation for entry failAt fails (0: none fails), all shadow vectors
\* are freed again and the error is returned; gc_running = !ret
bch2_gc_accounting_start(data, failAt) ==
    IF failAt = 0
    THEN [ret  |-> BCH_ERR_ok,
          data |-> [i \in 1..Len(data) |->
                       [data[i] EXCEPT !.v1 = AllocPercpu(data[i].nr_counters)]],
          gc_running |-> TRUE]
    ELSE [ret  |-> BCH_ERR_ENOMEM_disk_accounting,
          data |-> bch2_accounting_free_counters(
                       [i \in 1..Len(data) |->
                           IF i < failAt
                           THEN [data[i] EXCEPT
                                    !.v1 = AllocPercpu(data[i].nr_counters)]
                           ELSE data[i]], TRUE),
          gc_running |-> FALSE]

(***************************************************************************)
(* State.                                                                  *)
(***************************************************************************)
VARIABLES
    table,          \* c->accounting.k: the array of accounting_mem_entry
    gc_running,     \* c->accounting.gc_running
    mark_readers,   \* threads holding the shared side of c->mark_lock
    mark_writer,    \* thread holding the exclusive side, 0 if none
    sb_replicas,    \* replicas entries marked in the superblock
    pc,             \* per thread: where it is
    op,             \* per thread: the key and mode of the update in progress
    ret,            \* per thread: the error returned by the last call
    trans,          \* per thread: the transaction's write-buffer updates
    nops,           \* per thread: updates started so far
    gc_ret,         \* the GC thread: the error bch2_gc_accounting_start returned
    arg,            \* per thread: the caller's position and deltas, when the
                    \* specification fixes them up front
    cfg,            \* the specification's choice of threads, inputs and bounds
    gc_walk,        \* bch2_gc_accounting_done: where it is, its locals (pos,
                    \* acc_k, dst_v, src_v, ret) and the keys its transaction
                    \* has committed
    may_go_rw,      \* test_bit(BCH_FS_may_go_rw, &c->flags)
    btree,          \* the accounting btree: its keys in position order
    journal_keys,   \* c->journal_keys: data (the array) and nr
    usage,          \* c->usage (struct bch_fs_usage_base) and the per-device
                    \* usage bch2_accounting_read sets
    acc_read,       \* bch2_accounting_read: where it is, its locals (the
                    \* iterators, dst, ret), the shared holds of mark_lock it
                    \* has taken less those it has released, the number of
                    \* runs, and what the first run left
    fs,             \* the inodes, dirents and subvolumes btrees
    last,           \* the last namespace operation: its arguments and result
    vfs             \* a VFS entry point's retry loop: position and result

\* the state of startup replay
read_vars == <<btree, journal_keys, usage, acc_read>>

\* the state of the namespace and of the VFS entry points
ns_vars == <<fs, last, vfs>>

vars == <<table, gc_running, mark_readers, mark_writer, sb_replicas,
          pc, op, ret, trans, nops, gc_ret, arg, cfg, gc_walk, may_go_rw,
          read_vars, ns_vars>>

\* updates one thread starts in one behaviour of Spec
MaxOps == 2
\* write-buffer updates one transaction queues before it commits
MaxTrans == 1

(***************************************************************************)
(* Inputs.                                                                 *)
(***************************************************************************)
PosNrInodes == [type |-> "nr_inodes"]
PosReplicas(devs) ==
    [type |-> "replicas", data_type |-> 1, nr_required |-> 1, devs |-> devs]
PosDevDataType == [type |-> "dev_data_type", dev |-> 2, data_type |-> 1]

\* positions and deltas the threads of Spec draw their updates from
Updates ==
    {[pos |-> PosNrInodes, d |-> <<1>>],
     [pos |-> PosReplicas(<<2, 5>>), d |-> <<5>>],
     [pos |-> PosReplicas(<<5, 2>>), d |-> <<-5>>]}

\* keys that Spec's threads read from the btree (mode read)
Reads == {[pos |-> PosReplicas(<<2, 5>>), d |-> <<5>>]}

NoOp == [a |-> [p |-> Pad(<< >>), bversion |-> 0, d |-> << >>], mode |-> "none"]
NoArg == [pos |-> PosNrInodes, d |-> << >>, mode |-> "none"]

\* POS_MIN
POS_MIN == Pad(<< >>)

\* bch2_gc_accounting_done is not running: the error its last run returned
\* and the keys its transaction committed
GcWalkIdle(r, commits) ==
    [pc |-> "idle", pos |-> POS_MIN, acc_k |-> POS_MIN, dst_v |-> << >>,
     src_v |-> << >>, ret |-> r, commits |-> commits]

\* a zeroed struct bch_fs_usage_base, and no device usage set
UsageZero ==
    [hidden |-> 0, btree |-> 0, data |-> 0, cached |-> 0, reserved |-> 0,
     dev |-> {}]

\* bch2_accounting_read has not been called
AccReadIdle ==
    [pc |-> "idle", i |-> 0, dst |-> 0, ret |-> BCH_ERR_ok, held |-> 0,
     runs |-> 0, first |-> [live |-> {}, usage |-> UsageZero],
     applied |-> << >>, j0 |-> << >>]

\* no inode, dirent or subvolume; no namespace operation and no VFS call
FsEmpty == [inodes |-> << >>, dirents |-> << >>, subvols |-> << >>]
NoLast == [op |-> "none", ret |-> "ok", n |-> 0]
VfsIdle == [fn |-> "none", pc |-> "idle", ret |-> "ok", tries |-> 0, calls |-> 0]
NsIdle == fs = FsEmpty /\ last = NoLast /\ vfs = VfsIdle

\* nothing in the accounting btree or the journal, bch2_accounting_read not
\* called
ReadIdle ==
    /\ btree = << >>
    /\ journal_keys = [data |-> << >>, nr |-> 0]
    /\ usage = UsageZero
    /\ acc_read = AccReadIdle

\* the state after bch2_fs_alloc: an empty table, nothing locked or marked
InitState(c) ==
    /\ cfg = c
    /\ table = << >>
    /\ gc_running = FALSE
    /\ mark_readers = {}
    /\ mark_writer = 0
    /\ sb_replicas = {}
    /\ pc = [t \in c.threads |-> "idle"]
    /\ op = [t \in c.threads |-> NoOp]
    /\ ret = [t \in c.threads |-> BCH_ERR_ok]
    /\ trans = [t \in c.threads |-> << >>]
    /\ nops = [t \in c.threads |-> 0]
    /\ gc_ret = BCH_ERR_ok
    /\ gc_walk = GcWalkIdle(BCH_ERR_ok, << >>)

Init ==
    /\ InitState([threads |-> Threads, updates |-> Updates, reads |-> Reads,
                  maxops |-> MaxOps, fails |-> InsertFails])
    /\ arg = [t \in Threads |-> NoArg]
    /\ may_go_rw = TRUE
    /\ ReadIdle
    /\ NsIdle

(***************************************************************************)
(* The update pipeline.                                                    *)
(***************************************************************************)
\* bch2_disk_accounting_mod(trans, k, d, nr, gc): normalize the position,
\* build the key; !gc queues it as a write-buffer update of the transaction
\* (bch2_trans_update_buffered), gc goes to bch2_accounting_mem_add(.., true),
\* which takes the shared side of mark_lock
bch2_disk_accounting_mod(t, k, d, gc) ==
    /\ pc[t] \in {"idle", "queued"}
    /\ nops[t] < cfg.maxops
    /\ LET k_i == accounting_key_init(NormalizePos(k), d)
       IN  IF ~gc
           THEN /\ Len(trans[t]) < MaxTrans
                /\ trans' = [trans EXCEPT ![t] = Append(@, k_i)]
                /\ pc' = [pc EXCEPT ![t] = "queued"]
                /\ UNCHANGED <<op, mark_readers>>
           ELSE /\ mark_writer = 0
                /\ mark_readers' = mark_readers \cup {t}
                /\ op' = [op EXCEPT ![t] =
                            [a |-> [p |-> k_i.p, bversion |-> 0, d |-> k_i.d],
                             mode |-> "gc"]]
                /\ pc' = [pc EXCEPT ![t] = "mod"]
                /\ trans' = trans
    /\ nops' = [nops EXCEPT ![t] = @ + 1]
    /\ ret' = [ret EXCEPT ![t] = BCH_ERR_ok]
    /\ UNCHANGED <<table, gc_running, mark_writer, sb_replicas, gc_ret, arg, cfg, gc_walk, may_go_rw, read_vars,
                   ns_vars>>

\* the commit path: the next accounting update of the transaction, stamped
\* with the commit's version, goes to bch2_accounting_mem_mod_locked in mode
\* normal under the shared side of mark_lock
TransCommit(t) ==
    /\ pc[t] \in {"queued", "commit"}
    /\ mark_writer = 0
    /\ mark_readers' = mark_readers \cup {t}
    /\ op' = [op EXCEPT ![t] =
                [a |-> [p |-> Head(trans[t]).p, bversion |-> 1,
                        d |-> Head(trans[t]).d],
                 mode |-> "normal"]]
    /\ pc' = [pc EXCEPT ![t] = "mod"]
    /\ UNCHANGED <<table, gc_running, mark_writer, sb_replicas,
                   ret, trans, nops, gc_ret, arg, cfg, gc_walk, may_go_rw, read_vars,
                   ns_vars>>

\* accounting_read_key(trans, k): a key read from the btree or the journal is
\* applied in mode read, under the shared side of mark_lock
AccountingReadKeyCall(t, key) ==
    /\ pc[t] = "idle"
    /\ nops[t] < cfg.maxops
    /\ nops' = [nops EXCEPT ![t] = @ + 1]
    /\ mark_writer = 0
    /\ mark_readers' = mark_readers \cup {t}
    /\ op' = [op EXCEPT ![t] =
                [a |-> [p |-> key.p, bversion |-> key.bversion, d |-> key.d],
                 mode |-> "read"]]
    /\ pc' = [pc EXCEPT ![t] = "mod"]
    /\ ret' = [ret EXCEPT ![t] = BCH_ERR_ok]
    /\ UNCHANGED <<table, gc_running, mark_writer, sb_replicas, trans, gc_ret,
                   arg, cfg, gc_walk, may_go_rw>>

accounting_read_key(t, k, d) ==
    /\ AccountingReadKeyCall(t, [p |-> disk_accounting_pos_to_bpos(k),
                                 bversion |-> 1, d |-> d])
    /\ UNCHANGED <<read_vars, ns_vars>>

\* the CPU a thread runs on
CpuOf(t) == ((t - 1) % NCpus) + 1

MemModAddLive(data, idx, a, gc, cpu) ==
    [data EXCEPT ![idx + 1] = [@ EXCEPT !.v0 = ThisCpuAdd(@, cpu, a.d)]]

\* the this_cpu_add loop of bch2_accounting_mem_mod_locked on entry idx
MemModAdd(data, idx, a, gc, cpu) ==
    [data EXCEPT ![idx + 1] =
        IF gc THEN [@ EXCEPT !.v1 = ThisCpuAdd(@, cpu, a.d)]
              ELSE [@ EXCEPT !.v0 = ThisCpuAdd(@, cpu, a.d)]]

\* bch2_accounting_mem_mod_locked(trans, a, mode): find the entry; when it
\* is missing call bch2_accounting_mem_insert and look again; then add the
\* deltas to this CPU's counters of the live (or, in mode gc, shadow) vector
bch2_accounting_mem_mod_locked(t) ==
    /\ pc[t] = "mod"
    /\ LET a   == op[t].a
           gc  == op[t].mode = "gc"
           idx == eytzinger0_find(table, a.p)
       IN  IF gc /\ ~gc_running
           THEN /\ pc' = [pc EXCEPT ![t] = "up_read"]
                /\ table' = table
           ELSE IF idx >= Len(table)
           THEN /\ pc' = [pc EXCEPT ![t] = "insert"]
                /\ table' = table
           ELSE /\ table' = MemModAdd(table, idx, a, gc, CpuOf(t))
                /\ pc' = [pc EXCEPT ![t] = "up_read"]
    /\ UNCHANGED <<gc_running, mark_readers, mark_writer, sb_replicas, op, ret,
                   trans, nops, gc_ret, arg, cfg, gc_walk, may_go_rw, read_vars,
                   ns_vars>>

(***************************************************************************)
(* bch2_accounting_mem_insert, called with the shared side held.           *)
(***************************************************************************)
\* bch2_replicas_marked_locked(c, &r.e)
bch2_replicas_marked_locked(p) == ReplicasEntry(p) \in sb_replicas

\* the test that makes bch2_accounting_mem_insert return
\* -BCH_ERR_btree_insert_need_mark_replicas
NeedMarkIgnoresMode(mode, p) ==
    accounting_to_replicas(p) /\ ~bch2_replicas_marked_locked(p)

NeedMarkReplicas(mode, p) ==
    /\ mode # "read"
    /\ accounting_to_replicas(p)
    /\ ~bch2_replicas_marked_locked(p)

\* the registration check, then percpu_up_read(&c->mark_lock)
InsertBeginKeepsShared(t) ==
    /\ pc[t] = "insert"
    /\ IF NeedMarkReplicas(op[t].mode, op[t].a.p)
       THEN /\ ret' = [ret EXCEPT ![t] = BCH_ERR_btree_insert_need_mark_replicas]
            /\ pc' = [pc EXCEPT ![t] = "up_read"]
       ELSE /\ pc' = [pc EXCEPT ![t] = "insert_locked"]
            /\ ret' = ret
    /\ UNCHANGED <<table, gc_running, mark_readers, mark_writer, sb_replicas,
                   op, trans, nops, gc_ret, arg, cfg, gc_walk, may_go_rw, read_vars,
                   ns_vars>>

bch2_accounting_mem_insert_begin(t) ==
    /\ pc[t] = "insert"
    /\ IF NeedMarkReplicas(op[t].mode, op[t].a.p)
       THEN /\ ret' = [ret EXCEPT ![t] = BCH_ERR_btree_insert_need_mark_replicas]
            /\ pc' = [pc EXCEPT ![t] = "up_read"]
            /\ mark_readers' = mark_readers
       ELSE /\ mark_readers' = mark_readers \ {t}
            /\ pc' = [pc EXCEPT ![t] = "down_write"]
            /\ ret' = ret
    /\ UNCHANGED <<table, gc_running, mark_writer, sb_replicas, op, trans,
                   nops, gc_ret, arg, cfg, gc_walk, may_go_rw, read_vars,
                   ns_vars>>

\* percpu_down_write(&c->mark_lock): waits for the readers and the writer
bch2_accounting_mem_insert_down_write(t) ==
    /\ pc[t] = "down_write"
    /\ mark_writer = 0
    /\ mark_readers = {}
    /\ mark_writer' = t
    /\ pc' = [pc EXCEPT ![t] = "insert_locked"]
    /\ UNCHANGED <<table, gc_running, mark_readers, sb_replicas, op, ret,
                   trans, nops, gc_ret, arg, cfg, gc_walk, may_go_rw, read_vars,
                   ns_vars>>

\* __bch2_accounting_mem_insert(c, a), then percpu_up_write(&c->mark_lock)
bch2_accounting_mem_insert_locked(t, fail) ==
    /\ pc[t] = "insert_locked"
    /\ LET r == __bch2_accounting_mem_insert(table, gc_running, op[t].a, fail)
       IN  /\ table' = r.data
           /\ ret' = [ret EXCEPT ![t] = r.ret]
    /\ mark_writer' = 0
    /\ pc' = [pc EXCEPT ![t] = "ins_down_read"]
    /\ UNCHANGED <<gc_running, mark_readers, sb_replicas, op, trans, nops, gc_ret, arg, cfg, gc_walk, may_go_rw, read_vars,
                   ns_vars>>

\* percpu_down_read(&c->mark_lock), return ret: mem_mod_locked returns the
\* error or looks the key up again
bch2_accounting_mem_insert_down_read(t) ==
    /\ pc[t] = "ins_down_read"
    /\ mark_writer = 0
    /\ mark_readers' = mark_readers \cup {t}
    /\ pc' = [pc EXCEPT ![t] = IF ret[t] # BCH_ERR_ok THEN "up_read" ELSE "mod"]
    /\ UNCHANGED <<table, gc_running, mark_writer, sb_replicas, op, ret,
                   trans, nops, gc_ret, arg, cfg, gc_walk, may_go_rw, read_vars,
                   ns_vars>>

\* percpu_up_read(&c->mark_lock) of the caller of mem_mod_locked, and what
\* the caller does with the error: the commit path goes on with the next
\* update, registers the replicas entry and retries, or fails
percpu_up_read(t) ==
    /\ pc[t] = "up_read"
    /\ mark_readers' = mark_readers \ {t}
    /\ IF op[t].mode # "normal"
       THEN /\ pc' = [pc EXCEPT ![t] =
                        IF trans[t] # << >> THEN "queued" ELSE "idle"]
            /\ op' = [op EXCEPT ![t] = NoOp]
            /\ trans' = trans
       ELSE IF ret[t] = BCH_ERR_ok
       THEN /\ trans' = [trans EXCEPT ![t] = Tail(@)]
            /\ pc' = [pc EXCEPT ![t] =
                        IF Tail(trans[t]) # << >> THEN "commit" ELSE "idle"]
            /\ op' = [op EXCEPT ![t] = NoOp]
       ELSE IF ret[t] = BCH_ERR_btree_insert_need_mark_replicas
       THEN /\ pc' = [pc EXCEPT ![t] = "update_sb"]
            /\ UNCHANGED <<op, trans>>
       ELSE /\ trans' = [trans EXCEPT ![t] = << >>]
            /\ pc' = [pc EXCEPT ![t] = "idle"]
            /\ op' = [op EXCEPT ![t] = NoOp]
    /\ UNCHANGED <<table, gc_running, mark_writer, sb_replicas, ret, nops, gc_ret, arg, cfg, gc_walk, may_go_rw, read_vars,
                   ns_vars>>

\* bch2_accounting_update_sb(trans): bch2_mark_replicas for the replicas keys
\* of the transaction; the commit is retried, or fails when marking fails
bch2_accounting_update_sb(t, ok) ==
    /\ pc[t] = "update_sb"
    /\ IF ok
       THEN /\ sb_replicas' = sb_replicas \cup
                    {ReplicasEntry(trans[t][i].p) : i \in
                        {j \in 1..Len(trans[t]) : accounting_to_replicas(trans[t][j].p)}}
            /\ pc' = [pc EXCEPT ![t] = "commit"]
            /\ trans' = trans
            /\ ret' = [ret EXCEPT ![t] = BCH_ERR_ok]
       ELSE /\ sb_replicas' = sb_replicas
            /\ trans' = [trans EXCEPT ![t] = << >>]
            /\ pc' = [pc EXCEPT ![t] = "idle"]
            /\ ret' = ret
    /\ op' = [op EXCEPT ![t] = NoOp]
    /\ UNCHANGED <<table, gc_running, mark_readers, mark_writer, nops, gc_ret, arg, cfg, gc_walk, may_go_rw, read_vars,
                   ns_vars>>

(***************************************************************************)
(* The GC thread.  Each of these takes the exclusive side of mark_lock for *)
(* its whole body, so it is one step, enabled when the lock is free.       *)
(***************************************************************************)
MarkLockFree == mark_writer = 0 /\ mark_readers = {}

\* no update in mode gc is in flight: the GC pass issues its own updates and
\* its gc_start / gc_free calls in sequence
NoGcUpdateInFlight == \A t \in cfg.threads : op[t].mode # "gc"

\* bch2_accounting_mem_gc(c)
AccountingMemGc ==
    /\ MarkLockFree
    /\ table' = bch2_accounting_mem_gc(table)
    /\ table' # table
    /\ UNCHANGED <<gc_running, mark_readers, mark_writer, sb_replicas,
                   pc, op, ret, trans, nops, gc_ret, arg, cfg, gc_walk, may_go_rw, read_vars,
                   ns_vars>>

\* bch2_gc_accounting_start(c), called when no GC pass is running
GcAccountingStart(failAt) ==
    /\ MarkLockFree
    /\ ~gc_running
    /\ gc_ret = BCH_ERR_ok
    /\ NoGcUpdateInFlight
    /\ gc_walk.pc = "idle"
    /\ LET r == bch2_gc_accounting_start(table, failAt)
       IN  /\ table' = r.data
           /\ gc_running' = r.gc_running
           /\ gc_ret' = r.ret
    /\ UNCHANGED <<mark_readers, mark_writer, sb_replicas, pc, op, ret, trans,
                   nops, arg, cfg, gc_walk, may_go_rw, read_vars,
                   ns_vars>>

\* bch2_accounting_gc_free(c), its caller holding mark_lock: at the end of
\* the GC pass, and after a failed start
bch2_accounting_gc_free ==
    /\ MarkLockFree
    /\ gc_running \/ gc_ret # BCH_ERR_ok
    /\ NoGcUpdateInFlight
    /\ gc_walk.pc = "idle"
    /\ table' = bch2_accounting_free_counters(table, TRUE)
    /\ gc_running' = FALSE
    /\ gc_ret' = BCH_ERR_ok
    /\ UNCHANGED <<mark_readers, mark_writer, sb_replicas, pc, op, ret, trans,
                   nops, arg, cfg, gc_walk, may_go_rw, read_vars,
                   ns_vars>>

(***************************************************************************)
(* bch2_gc_accounting_done(c), run by the GC thread at the end of a pass   *)
(* that bch2_gc_accounting_start began.  It walks the table under the      *)
(* exclusive side of mark_lock and drops the lock around each commit.      *)
(***************************************************************************)
\* the id under which the GC thread holds mark_lock
GcThread == Cardinality(cfg.threads) + 1

\* what fsck_err(trans, accounting_mismatch, ...) can do: return true,
\* return false, or jump to the fsck_err label with an error
FsckOutcomes == {"fix", "ignore", "error"}

BCH_ERR_fsck_errors_not_fixed == "fsck_errors_not_fixed"
BCH_ERR_commit_failed == "commit_failed"

\* src_v[j] -= dst_v[j]: shadow minus live, per counter
GcDeltaReversed(e) ==
    [j \in 1..e.nr_counters |->
        (ReadCounters(e, FALSE)[j] - ReadCounters(e, TRUE)[j]) % CounterMod]

GcDelta(e) ==
    [j \in 1..e.nr_counters |->
        (ReadCounters(e, TRUE)[j] - ReadCounters(e, FALSE)[j]) % CounterMod]

\* percpu_down_write and pos = POS_MIN
GcDoneBegin ==
    /\ gc_walk.pc = "idle"
    /\ gc_running
    /\ MarkLockFree
    /\ NoGcUpdateInFlight
    /\ mark_writer' = GcThread
    /\ gc_walk' = [gc_walk EXCEPT !.pc = "walk", !.pos = POS_MIN,
                                  !.ret = BCH_ERR_ok, !.commits = << >>]
    /\ UNCHANGED <<table, gc_running, mark_readers, sb_replicas, pc, op, ret,
                   trans, nops, gc_ret, arg, cfg, may_go_rw, read_vars,
                   ns_vars>>

\* one turn of the while loop, up to the percpu_up_write before the commit
GcDoneExamine(fsck) ==
    /\ gc_walk.pc = "walk"
    /\ LET idx == eytzinger0_find_ge(table, gc_walk.pos)
       IN  IF idx >= Len(table)
           THEN \* break; percpu_up_write; return ret
                /\ gc_walk' = GcWalkIdle(gc_walk.ret, gc_walk.commits)
                /\ mark_writer' = 0
           ELSE LET e == table[idx + 1]
                    next == [gc_walk EXCEPT !.pos = bpos_successor(e.pos)]
                IN  IF BposType(e.pos) >= BCH_DISK_ACCOUNTING_TYPE_NR
                    THEN gc_walk' = next /\ mark_writer' = mark_writer
                    ELSE IF ReadCounters(e, FALSE) = ReadCounters(e, TRUE)
                    THEN gc_walk' = next /\ mark_writer' = mark_writer
                    ELSE IF fsck = "fix"
                    THEN /\ gc_walk' = [next EXCEPT !.pc = "commit",
                                            !.acc_k = e.pos,
                                            !.dst_v = ReadCounters(e, FALSE),
                                            !.src_v = GcDelta(e)]
                         /\ mark_writer' = 0
                    ELSE IF fsck = "ignore"
                    THEN gc_walk' = next /\ mark_writer' = mark_writer
                    ELSE /\ gc_walk' = GcWalkIdle(BCH_ERR_fsck_errors_not_fixed,
                                                  gc_walk.commits)
                         /\ mark_writer' = 0
    /\ UNCHANGED <<table, gc_running, mark_readers, sb_replicas, pc, op, ret,
                   trans, nops, gc_ret, arg, cfg, may_go_rw, read_vars,
                   ns_vars>>

\* commit_do(trans, NULL, NULL, 0, bch2_disk_accounting_mod(trans, &acc_k,
\* src_v, nr, false)): the key joins the transaction's committed updates;
\* once the filesystem may go read-write the commit applies it to the
\* in-memory counters in mode normal under the shared side of mark_lock,
\* before that it only reaches the journal keys.  Nothing removes the entry
\* while bch2_gc_accounting_done runs.
GcDoneCommit(ok) ==
    /\ gc_walk.pc = "commit"
    /\ LET k_i == accounting_key_init(
                    NormalizePos(bpos_to_disk_accounting_pos(gc_walk.acc_k)),
                    gc_walk.src_v)
           a   == [p |-> k_i.p, bversion |-> 1, d |-> k_i.d]
           idx == eytzinger0_find(table, a.p)
       IN  IF ~ok
           THEN /\ gc_walk' = [gc_walk EXCEPT !.pc = "relock",
                                              !.ret = BCH_ERR_commit_failed]
                /\ table' = table
           ELSE /\ gc_walk' = [gc_walk EXCEPT !.pc = "relock",
                                    !.commits = Append(@, k_i)]
                /\ IF may_go_rw
                   THEN /\ mark_writer = 0
                        /\ idx < Len(table)
                        /\ table' = MemModAdd(table, idx, a, FALSE, CpuOf(GcThread))
                   ELSE table' = table
    /\ UNCHANGED <<gc_running, mark_readers, mark_writer, sb_replicas, pc, op,
                   ret, trans, nops, gc_ret, arg, cfg, may_go_rw, read_vars,
                   ns_vars>>

\* percpu_down_write; if (ret) goto err; before BCH_FS_may_go_rw the delta
\* is applied here with bch2_accounting_mem_mod_locked in mode normal
GcDoneRelock ==
    /\ gc_walk.pc = "relock"
    /\ MarkLockFree
    /\ LET a   == [p |-> disk_accounting_pos_to_bpos(
                            bpos_to_disk_accounting_pos(gc_walk.acc_k)),
                   bversion |-> 0, d |-> gc_walk.src_v]
           idx == eytzinger0_find(table, a.p)
       IN  IF gc_walk.ret # BCH_ERR_ok
           THEN /\ gc_walk' = GcWalkIdle(gc_walk.ret, gc_walk.commits)
                /\ mark_writer' = 0
                /\ table' = table
           ELSE /\ gc_walk' = [gc_walk EXCEPT !.pc = "walk"]
                /\ mark_writer' = GcThread
                /\ IF ~may_go_rw
                   THEN /\ idx < Len(table)
                        /\ table' = MemModAdd(table, idx, a, FALSE, CpuOf(GcThread))
                   ELSE table' = table
    /\ UNCHANGED <<gc_running, mark_readers, sb_replicas, pc, op, ret, trans,
                   nops, gc_ret, arg, cfg, may_go_rw, read_vars,
                   ns_vars>>

(***************************************************************************)
(* The concurrent specification.                                           *)
(***************************************************************************)
\* the steps of an update once it has started
ThreadRun(t) ==
    \/ TransCommit(t)
    \/ bch2_accounting_mem_mod_locked(t)
    \/ bch2_accounting_mem_insert_begin(t)
    \/ bch2_accounting_mem_insert_down_write(t)
    \/ \E fail \in cfg.fails : bch2_accounting_mem_insert_locked(t, fail)
    \/ bch2_accounting_mem_insert_down_read(t)
    \/ percpu_up_read(t)
    \/ \E ok \in BOOLEAN : bch2_accounting_update_sb(t, ok)

ThreadStep(t) ==
    \/ \E u \in cfg.updates, gc \in BOOLEAN :
            bch2_disk_accounting_mod(t, u.pos, u.d, gc)
    \/ \E u \in cfg.reads : accounting_read_key(t, u.pos, u.d)
    \/ ThreadRun(t)

Next ==
    \/ \E t \in cfg.threads : ThreadStep(t)
    \/ AccountingMemGc
    \/ \E failAt \in 0..Len(table) : GcAccountingStart(failAt)
    \/ bch2_accounting_gc_free

Spec == Init /\ [][Next]_vars

(***************************************************************************)
(* Properties of the counter table under Spec.                             *)
(***************************************************************************)
\* the keys of the array, in array order
PosSeq(data) == [i \in 1..Len(data) |-> data[i].pos]

\* the keys of the array with the live counters of each
LiveOf(data) == {<<data[i].pos, data[i].nr_counters, data[i].v0>> : i \in 1..Len(data)}

\* the keys whose entry has a shadow vector
ShadowKeys(data) == {data[i].pos : i \in {j \in 1..Len(data) : data[j].v1 # NullVec}}

\* a thread that is inside bch2_accounting_mem_insert with the shared side
\* released
InsertUnlockedPcs == {"down_write", "ins_down_read"}
\* a thread that holds the shared side: in mem_mod_locked, at the entry of
\* mem_insert, or back from it
SharedPcs == {"mod", "insert", "up_read"}

C1_Locks ==
    \A t \in cfg.threads :
        /\ pc[t] \in SharedPcs => t \in mark_readers /\ mark_writer # t
        /\ pc[t] \in InsertUnlockedPcs => t \notin mark_readers /\ mark_writer # t
        /\ pc[t] = "insert_locked" =>
                t \notin mark_readers /\ mark_writer = t /\ mark_readers = {}

C1_Step ==
    \A t \in cfg.threads :
        /\ (pc'[t] # pc[t] /\ PosSeq(table') # PosSeq(table)) =>
                mark_writer = t /\ mark_readers = {}
        /\ (pc[t] = "insert_locked" /\ pc'[t] # pc[t]) =>
                /\ mark_writer = t /\ mark_readers = {}
                /\ eytzinger0_find(table, op[t].a.p) < Len(table) =>
                        table' = table /\ ret'[t] = BCH_ERR_ok
        /\ (pc[t] = "ins_down_read" /\ pc'[t] # pc[t]) =>
                /\ ret'[t] \in {BCH_ERR_ok, BCH_ERR_ENOMEM_disk_accounting}
                /\ t \in mark_readers' /\ mark_writer' = 0
        /\ (pc[t] = "insert" /\ pc'[t] = "up_read") =>
                /\ ret'[t] = BCH_ERR_btree_insert_need_mark_replicas
                /\ t \in mark_readers' /\ mark_writer' # t

\* C1: bch2_accounting_mem_insert changes the array (push, re-sort) only
\* while it holds the exclusive side of mark_lock and nobody holds the shared
\* side: it drops shared, takes exclusive, looks the key up again (present:
\* success, nothing inserted), inserts, drops exclusive and retakes shared;
\* on every return (success, ENOMEM, need_mark_replicas) the caller holds
\* the shared side and not the exclusive side.
C1_InsertUnderExclusive == [](C1_Locks) /\ [][C1_Step]_vars

\* a call of mem_insert has come back with ENOMEM to a caller that holds the
\* shared side, after another call has inserted an entry
C1_Witness ==
    \E t \in cfg.threads :
        /\ pc[t] = "up_read"
        /\ ret[t] = BCH_ERR_ENOMEM_disk_accounting
        /\ t \in mark_readers
        /\ Len(table) > 0

\* C4: in every state either gc_running holds and every entry has a shadow
\* vector, or gc_running does not hold and no entry has one; so an entry
\* inserted while GC runs has a shadow vector.
C4_ShadowAllOrNone ==
    \/ gc_running /\ \A i \in 1..Len(table) : table[i].v1 # NullVec
    \/ ~gc_running /\ \A i \in 1..Len(table) : table[i].v1 = NullVec

\* the first entry of the table has just been inserted while GC is running
C4_Witness ==
    /\ gc_running
    /\ Len(table) = 1
    /\ table[1].v1 # NullVec
    /\ \E t \in cfg.threads :
        /\ pc[t] = "ins_down_read"
        /\ ret[t] = BCH_ERR_ok
        /\ op[t].a.p = table[1].pos
        /\ \A u \in cfg.threads \ {t} : nops[u] = 0

C8_Step ==
    /\ \A t \in cfg.threads :
        (pc[t] = "insert_locked" /\ pc'[t] # pc[t]) =>
            \/ /\ ret'[t] = BCH_ERR_ok
               /\ eytzinger0_find(table', op[t].a.p) < Len(table')
            \/ /\ ret'[t] = BCH_ERR_ENOMEM_disk_accounting
               /\ table' = table
               /\ gc_running' = gc_running
    /\ (gc_ret = BCH_ERR_ok /\ gc_ret' # BCH_ERR_ok)
        => /\ gc_ret' = BCH_ERR_ENOMEM_disk_accounting
           /\ PosSeq(table') = PosSeq(table)
           /\ LiveOf(table') = LiveOf(table)
           /\ ShadowKeys(table') \subseteq ShadowKeys(table)
           /\ ~gc_running'

\* C8: an allocation failing in __bch2_accounting_mem_insert (live vector,
\* shadow vector, array growth) or in bch2_gc_accounting_start makes the call
\* return ENOMEM_disk_accounting with the table as it was: the same keys and
\* live counters, no shadow vector that was not there before, and gc_running
\* false after a failed gc_start.
C8_EnomemLeavesTable == [][C8_Step]_vars

\* gc_start has failed on a table of two entries and an insert has failed
C8_Witness ==
    /\ gc_ret = BCH_ERR_ENOMEM_disk_accounting
    /\ Len(table) = 2
    /\ \E t \in cfg.threads :
        pc[t] = "ins_down_read" /\ ret[t] = BCH_ERR_ENOMEM_disk_accounting

C9_Step ==
    \A t \in cfg.threads :
        /\ (pc[t] = "insert" /\ pc'[t] # pc[t]) =>
            IF /\ op[t].mode # "read"
               /\ BposType(op[t].a.p) = TypeOrd("replicas")
               /\ ReplicasEntry(op[t].a.p) \notin sb_replicas
            THEN /\ ret'[t] = BCH_ERR_btree_insert_need_mark_replicas
                 /\ pc'[t] = "up_read"
                 /\ table' = table
            ELSE /\ pc'[t] = "down_write"
                 /\ ret'[t] = ret[t]
        /\ (pc[t] = "insert_locked" /\ pc'[t] # pc[t] /\ ret'[t] = BCH_ERR_ok) =>
                eytzinger0_find(table', op[t].a.p) < Len(table')

\* C9: bch2_accounting_mem_insert for a replicas key whose entry is not
\* marked in the superblock returns need_mark_replicas and leaves the table
\* as it is when the mode is not read; in mode read, and for keys that are
\* not replicas keys, the check does not apply and the insert goes ahead.
C9_NeedMarkReplicas == [][C9_Step]_vars

\* one thread has inserted an unmarked replicas key in mode read after
\* another, in mode normal, was refused the same key
C9_Witness ==
    \E t1, t2 \in cfg.threads :
        /\ pc[t1] = "ins_down_read" /\ op[t1].mode = "read"
        /\ ret[t1] = BCH_ERR_ok
        /\ eytzinger0_find(table, op[t1].a.p) < Len(table)
        /\ ReplicasEntry(op[t1].a.p) \notin sb_replicas
        /\ pc[t2] = "update_sb" /\ op[t2].mode = "normal"
        /\ op[t2].a.p = op[t1].a.p
        /\ ret[t2] = BCH_ERR_btree_insert_need_mark_replicas

(***************************************************************************)
(* SpecIns: threads that each apply one update fixed up front, racing to   *)
(* insert; no compaction and no GC pass.                                   *)
(***************************************************************************)
\* threads of SpecIns
InsThreads == 3

InsArgs ==
    {[pos |-> PosNrInodes, d |-> <<1>>, mode |-> "normal"],
     [pos |-> PosReplicas(<<5, 2>>), d |-> <<5>>, mode |-> "normal"],
     [pos |-> PosReplicas(<<2, 5>>), d |-> <<5>>, mode |-> "read"]}

\* the caller of the pipeline with the thread's own position and deltas
StartArg(t) ==
    IF arg[t].mode = "read"
    THEN accounting_read_key(t, arg[t].pos, arg[t].d)
    ELSE bch2_disk_accounting_mod(t, arg[t].pos, arg[t].d, arg[t].mode = "gc")

InitIns ==
    /\ InitState([threads |-> 1..InsThreads, updates |-> {}, reads |-> {},
                  maxops |-> 1, fails |-> InsertFails])
    /\ arg \in [1..InsThreads -> InsArgs]
    /\ may_go_rw = TRUE
    /\ ReadIdle
    /\ NsIdle

NextIns == \E t \in cfg.threads : StartArg(t) \/ ThreadRun(t)

SpecIns == InitIns /\ [][NextIns]_vars

\* the key a thread's update is for
ArgKey(t) == disk_accounting_pos_to_bpos(NormalizePos(arg[t].pos))

\* every thread has finished its update
AllDone == \A t \in cfg.threads : pc[t] = "idle" /\ nops[t] = cfg.maxops

\* the entries of the array with key p
EntriesFor(data, p) == {i \in 1..Len(data) : data[i].pos = p}

KeysDistinct(data) ==
    \A i, j \in 1..Len(data) : data[i].pos = data[j].pos => i = j

\* the claim as stated: every call returns success, and when all are done
\* the key of each is in the table once
C2_AsStated ==
    /\ KeysDistinct(table)
    /\ \A t \in cfg.threads : ret[t] = BCH_ERR_ok
    /\ AllDone => \A t \in cfg.threads :
            Cardinality(EntriesFor(table, ArgKey(t))) = 1

C2_State ==
    /\ KeysDistinct(table)
    /\ \A t \in cfg.threads :
        /\ ret[t] \in {BCH_ERR_ok, BCH_ERR_ENOMEM_disk_accounting,
                       BCH_ERR_btree_insert_need_mark_replicas}
        /\ ret[t] = BCH_ERR_btree_insert_need_mark_replicas =>
                arg[t].mode # "read" /\ accounting_to_replicas(ArgKey(t))
    /\ AllDone => \A t \in cfg.threads :
            Cardinality(EntriesFor(table, ArgKey(t))) =
                IF \E u \in cfg.threads :
                        ArgKey(u) = ArgKey(t) /\ ret[u] = BCH_ERR_ok
                THEN 1 ELSE 0

C2_Step ==
    \A t \in cfg.threads :
        (pc[t] = "insert_locked" /\ pc'[t] # pc[t]
            /\ EntriesFor(table, op[t].a.p) # {})
        => ret'[t] = BCH_ERR_ok /\ table' = table

\* C2 (amended): under any interleaving of threads calling
\* bch2_accounting_mem_insert for the same key, the keys of the table stay
\* pairwise distinct; a caller that finds the key present under the
\* exclusive side returns success and inserts nothing; a caller returns
\* success unless one of its allocations fails (ENOMEM) or the registration
\* check refuses the key (need_mark_replicas); and when all callers are
\* done the table holds exactly one entry for the key if any of them
\* returned success, and none otherwise.
C2_InsertRace == [](C2_State) /\ [][C2_Step]_vars

\* three threads have raced for one key, one was refused memory, and the
\* table holds the key once
C2_Witness ==
    /\ AllDone
    /\ \A t \in cfg.threads : ArgKey(t) = ArgKey(1)
    /\ \E t \in cfg.threads : ret[t] = BCH_ERR_ENOMEM_disk_accounting
    /\ \E t \in cfg.threads : ret[t] = BCH_ERR_ok
    /\ Cardinality(EntriesFor(table, ArgKey(1))) = 1

(***************************************************************************)
(* SpecSeq: one thread applies a sequence of updates over several keys,    *)
(* with compaction and GC passes in between.                               *)
(***************************************************************************)
\* updates of the thread of SpecSeq
SeqOps == 4

PosPersistentReserved == [type |-> "persistent_reserved", nr_replicas |-> 1]
PosSnapshot == [type |-> "snapshot"]

SeqPositions ==
    {PosNrInodes, PosPersistentReserved, PosReplicas(<<2, 5>>),
     PosDevDataType, PosSnapshot}

SeqUpdates ==
    {[pos |-> k, d |-> <<1>>] : k \in SeqPositions}
        \cup {[pos |-> PosDevDataType, d |-> <<-1>>]}

SeqReads == {[pos |-> PosSnapshot, d |-> <<1>>]}

InitSeq ==
    /\ InitState([threads |-> {1}, updates |-> SeqUpdates, reads |-> SeqReads,
                  maxops |-> SeqOps, fails |-> InsertFails])
    /\ arg = [t \in {1} |-> NoArg]
    /\ may_go_rw = TRUE
    /\ ReadIdle
    /\ NsIdle

SpecSeq == InitSeq /\ [][Next]_vars

\* the keys SpecSeq's updates are for, and one that is never inserted
SeqKeys ==
    {disk_accounting_pos_to_bpos(k) : k \in SeqPositions}
        \cup {disk_accounting_pos_to_bpos([type |-> "btree"])}

\* the entries in the order the in-order walk of the implicit tree visits
InOrderPos(data) ==
    LET order == Eytz0InOrder(0, Len(data))
    IN  [j \in 1..Len(data) |-> data[order[j] + 1].pos]

\* C3: after any sequence of insertions and compactions the array is in
\* Eytzinger order under the key comparator: the in-order walk is strictly
\* ascending, eytzinger0_find(K) is the index of K's entry for every key K
\* in the table, and an index >= nr for every key that is not.
C3_EytzingerOrder ==
    /\ \A j \in 1..(Len(table) - 1) :
            accounting_pos_cmp(InOrderPos(table)[j], InOrderPos(table)[j + 1]) < 0
    /\ \A K \in SeqKeys :
        LET idx == eytzinger0_find(table, K)
        IN  IF EntriesFor(table, K) # {}
            THEN idx < Len(table) /\ table[idx + 1].pos = K
            ELSE idx >= Len(table)

\* after all the updates three entries are in the table, laid out in an
\* order that is not the sorted one, and the entry of a key that was
\* inserted is gone again
C3_Witness ==
    /\ Len(table) = 3
    /\ nops[1] = SeqOps
    /\ pc[1] = "idle"
    /\ PosSeq(table) # PosSeq(SortByPos(table))
    /\ EntriesFor(table, disk_accounting_pos_to_bpos(PosDevDataType)) = {}
    /\ EntriesFor(table, disk_accounting_pos_to_bpos(PosSnapshot)) # {}
    /\ EntriesFor(table, disk_accounting_pos_to_bpos(PosNrInodes)) # {}
    /\ EntriesFor(table, disk_accounting_pos_to_bpos(PosPersistentReserved)) # {}

\* an entry all of whose counters are zero, live and shadow
AllCountersZero(e) ==
    /\ ReadCounters(e, FALSE) = ZeroCounters(e.nr_counters)
    /\ e.v1 # NullVec => ReadCounters(e, TRUE) = ZeroCounters(e.nr_counters)

RangeOf(data) == {data[i] : i \in 1..Len(data)}

C7_Fn ==
    LET r == bch2_accounting_mem_gc(table)
    IN  /\ RangeOf(r) = {e \in RangeOf(table) : ~AllCountersZero(e)}
        /\ Len(r) = Cardinality(RangeOf(r))

C7_Step ==
    LET gone == {i \in 1..Len(table) : EntriesFor(table', table[i].pos) = {}}
    IN  gone # {} =>
            /\ gone = {i \in 1..Len(table) : AllCountersZero(table[i])}
            /\ RangeOf(table') = {table[i] : i \in (1..Len(table)) \ gone}
            /\ UNCHANGED <<gc_running, mark_readers, mark_writer, sb_replicas,
                           pc, op, ret, trans, nops, gc_ret>>

\* C7: compaction removes exactly the entries all of whose counters are
\* zero in the live vector and, when there is one, in the shadow vector, and
\* leaves every other entry unchanged; no other operation removes entries.
C7_CompactionRemovesZero == [](C7_Fn) /\ [][C7_Step]_vars

\* during a GC pass the table holds an entry that is zero, an entry whose
\* live counters are zero and whose shadow counters are not, and an entry
\* with nonzero live counters, and no update is in flight
C7_Witness ==
    /\ gc_running
    /\ MarkLockFree
    /\ \E e \in RangeOf(table) : AllCountersZero(e)
    /\ \E e \in RangeOf(table) :
            /\ ReadCounters(e, FALSE) = ZeroCounters(e.nr_counters)
            /\ ~AllCountersZero(e)
    /\ \E e \in RangeOf(table) :
            ReadCounters(e, FALSE) # ZeroCounters(e.nr_counters)

(***************************************************************************)
(* SpecMod: threads that each commit one update fixed up front, to keys    *)
(* given with their devices in different orders, with compaction.          *)
(***************************************************************************)
\* threads of SpecMod
ModThreads == 3

ModArgs ==
    {[pos |-> PosReplicas(<<2, 5, 7>>), d |-> <<100, 3>>, mode |-> "normal"],
     [pos |-> PosReplicas(<<7, 5, 2>>), d |-> <<-40, 0>>, mode |-> "normal"],
     [pos |-> PosReplicas(<<5, 7, 2>>), d |-> <<196, 253>>, mode |-> "normal"],
     [pos |-> PosReplicas(<<7, 5, 2>>), d |-> <<100, 3>>, mode |-> "normal"]}

InitMod ==
    /\ InitState([threads |-> 1..ModThreads, updates |-> {}, reads |-> {},
                  maxops |-> 1, fails |-> InsertFails])
    /\ arg \in [1..ModThreads -> ModArgs]
    /\ may_go_rw = TRUE
    /\ ReadIdle
    /\ NsIdle

NextMod ==
    \/ \E t \in cfg.threads : StartArg(t) \/ ThreadRun(t)
    \/ AccountingMemGc

SpecMod == InitMod /\ [][NextMod]_vars

\* the update of thread t has been added to the counters
Applied(t) ==
    nops[t] = 1 /\ ret[t] = BCH_ERR_ok /\ pc[t] \in {"up_read", "idle"}

\* the sum of counter i of the deltas applied to key K by threads 1..n
RECURSIVE SumApplied(_, _, _)
SumApplied(K, i, n) ==
    IF n = 0 THEN 0
    ELSE SumApplied(K, i, n - 1)
            + (IF Applied(n) /\ ArgKey(n) = K THEN arg[n].d[i] ELSE 0)

\* counter i of key K as bch2_accounting_mem_read reads it: zero when the
\* key has no entry
LiveValue(K, i) ==
    LET idx == eytzinger0_find(table, K)
    IN  IF idx >= Len(table) THEN 0
        ELSE percpu_u64_get(table[idx + 1].v0, i)

\* C5: whatever the order and interleaving of the updates to a key among
\* threads and CPUs, each counter of the key is the sum, modulo the counter
\* width, of the deltas of the updates applied to it so far.
C5_Additivity ==
    \A t \in cfg.threads : \A i \in 1..Len(arg[t].d) :
        LiveValue(ArgKey(t), i)
            = SumApplied(ArgKey(t), i, Cardinality(cfg.threads)) % CounterMod

\* three threads on two CPUs have applied their deltas to one key, given
\* with its devices in different orders, and the sum has wrapped
C5_Witness ==
    /\ AllDone
    /\ \A t \in cfg.threads : Applied(t) /\ ArgKey(t) = ArgKey(1)
    /\ arg[1].pos # arg[2].pos
    /\ arg[1].d # arg[3].d
    /\ SumApplied(ArgKey(1), 1, Cardinality(cfg.threads)) > CounterMod
    /\ LiveValue(ArgKey(1), 1) # 0
    /\ \A c \in Cpus : table[1].v0[c][1] # 0

\* the key of the update thread t has in flight
HasKey(t) == trans[t] # << >> \/ op[t].mode # "none"

KeyInFlight(t) == IF trans[t] # << >> THEN Head(trans[t]).p ELSE op[t].a.p

\* the number of times x occurs in sequence s
Occurs(s, x) == Cardinality({i \in 1..Len(s) : s[i] = x})

\* two replicas positions that differ at most in the order of the devices
SameUpToDevOrder(a, b) ==
    /\ a.type = "replicas" /\ b.type = "replicas"
    /\ a.data_type = b.data_type /\ a.nr_required = b.nr_required
    /\ Len(a.devs) = Len(b.devs)
    /\ \A x \in {a.devs[i] : i \in 1..Len(a.devs)} \cup
                  {b.devs[i] : i \in 1..Len(b.devs)} :
            Occurs(a.devs, x) = Occurs(b.devs, x)

\* C6: two replicas positions that differ only in the order of the devices
\* give the same key after bch2_disk_accounting_mod, and a replicas position
\* with distinct devices gives a key whose device list is strictly
\* ascending, which bch2_accounting_validate accepts.
C6_Canonical ==
    /\ \A t, u \in cfg.threads :
        (HasKey(t) /\ HasKey(u) /\ SameUpToDevOrder(arg[t].pos, arg[u].pos))
            => KeyInFlight(t) = KeyInFlight(u)
    /\ \A t \in cfg.threads :
        (/\ HasKey(t) /\ arg[t].pos.type = "replicas"
         /\ \A x \in {arg[t].pos.devs[i] : i \in 1..Len(arg[t].pos.devs)} :
                Occurs(arg[t].pos.devs, x) = 1)
        => LET p == KeyInFlight(t)
               n == Len(arg[t].pos.devs)
           IN  /\ p[3] = n
               /\ \A i \in 1..(n - 1) : p[4 + i] < p[4 + i + 1]
               /\ bch2_accounting_validate(p, 1) = BCH_ERR_ok

\* two threads have queued updates for positions that list the same three
\* devices in different orders, neither of them ascending
C6_Witness ==
    /\ pc[1] = "queued" /\ pc[2] = "queued"
    /\ arg[1].pos.type = "replicas" /\ arg[1].pos.devs = <<7, 5, 2>>
    /\ arg[2].pos.type = "replicas" /\ arg[2].pos.devs = <<5, 7, 2>>
    /\ Head(trans[1]).p = Head(trans[2]).p

(***************************************************************************)
(* SpecGc: one thread's updates, in mode normal and in mode gc, and the GC *)
(* thread's pass: start, done, free; before and after BCH_FS_may_go_rw.    *)
(***************************************************************************)
\* updates of the thread of SpecGc
GcOps == 3

GcUpdates ==
    {[pos |-> PosDevDataType, d |-> <<100>>],
     [pos |-> PosDevDataType, d |-> <<5>>],
     [pos |-> PosNrInodes, d |-> <<5>>]}

GcReads == {[pos |-> [type |-> "unknown"], d |-> <<1>>]}

InitGc ==
    /\ InitState([threads |-> {1}, updates |-> GcUpdates, reads |-> GcReads,
                  maxops |-> GcOps, fails |-> {"none"}])
    /\ arg = [t \in {1} |-> NoArg]
    /\ may_go_rw \in BOOLEAN
    /\ ReadIdle
    /\ NsIdle

NextGc ==
    \/ \E t \in cfg.threads : ThreadStep(t)
    \/ \E failAt \in 0..Len(table) : GcAccountingStart(failAt)
    \/ bch2_accounting_gc_free
    \/ GcDoneBegin
    \/ \E fsck \in FsckOutcomes : GcDoneExamine(fsck)
    \/ \E ok \in BOOLEAN : GcDoneCommit(ok)
    \/ GcDoneRelock

SpecGc == InitGc /\ [][NextGc]_vars

\* the entry bch2_gc_accounting_done examines next
GcExamined == table[eytzinger0_find_ge(table, gc_walk.pos) + 1]

\* a step of the walk that examines an entry
GcExamines ==
    /\ gc_walk.pc = "walk"
    /\ eytzinger0_find_ge(table, gc_walk.pos) < Len(table)
    /\ gc_walk' # gc_walk

\* the entry examined is of a known type and its live and shadow counters
\* differ
GcMismatch ==
    /\ BposType(GcExamined.pos) < BCH_DISK_ACCOUNTING_TYPE_NR
    /\ ReadCounters(GcExamined, FALSE) # ReadCounters(GcExamined, TRUE)

\* shadow minus live of the entry examined, per counter
ShadowMinusLive ==
    [j \in 1..GcExamined.nr_counters |->
        (percpu_u64_get(GcExamined.v1, j) - percpu_u64_get(GcExamined.v0, j)
            + CounterMod) % CounterMod]

\* the delta for the entry examined goes to the commit
GcEmits ==
    /\ gc_walk'.pc = "commit"
    /\ gc_walk'.acc_k = GcExamined.pos
    /\ gc_walk'.src_v = ShadowMinusLive

\* the live and shadow counters of the entry with key K
LiveAt(data, K) == ReadCounters(data[eytzinger0_find(data, K) + 1], FALSE)
ShadowAt(data, K) == ReadCounters(data[eytzinger0_find(data, K) + 1], TRUE)

\* the step with which the delta of the entry under repair reaches the live
\* counters: the commit, or before BCH_FS_may_go_rw the code after it
GcApplies ==
    \/ /\ may_go_rw /\ gc_walk.pc = "commit"
       /\ gc_walk'.pc = "relock" /\ gc_walk'.ret = BCH_ERR_ok
    \/ ~may_go_rw /\ gc_walk.pc = "relock" /\ gc_walk'.pc = "walk"

\* the delta is committed as one key of the accounting btree, through
\* bch2_disk_accounting_mod with gc false
GcCommitsDelta ==
    (gc_walk.pc = "commit" /\ gc_walk'.pc = "relock"
        /\ gc_walk'.ret = BCH_ERR_ok) =>
        gc_walk'.commits =
            Append(gc_walk.commits, [p |-> gc_walk.acc_k, d |-> gc_walk.src_v])

\* once the delta is applied live equals shadow, when no other update has
\* touched the entry since it was examined
GcRepairs ==
    (/\ GcApplies
     /\ LiveAt(table, gc_walk.acc_k) = gc_walk.dst_v
     /\ ShadowAt(table, gc_walk.acc_k) =
            [j \in 1..Len(gc_walk.dst_v) |->
                (gc_walk.dst_v[j] + gc_walk.src_v[j]) % CounterMod])
    => LiveAt(table', gc_walk.acc_k) = ShadowAt(table', gc_walk.acc_k)

\* the claim as stated: every mismatching entry of a known type that is
\* examined has its delta emitted
C10_StepAsStated ==
    /\ (GcExamines /\ GcMismatch) => GcEmits
    /\ (GcExamines /\ ~GcMismatch) =>
            gc_walk'.pc = "walk" /\ gc_walk'.commits = gc_walk.commits
    /\ GcCommitsDelta
    /\ GcRepairs

C10_AsStated == [][C10_StepAsStated]_vars

C10_Step ==
    /\ (GcExamines /\ GcMismatch) =>
            \/ GcEmits
            \/ gc_walk'.pc = "walk" /\ gc_walk'.commits = gc_walk.commits
            \/ gc_walk'.pc = "idle" /\ gc_walk'.commits = gc_walk.commits
                    /\ gc_walk'.ret = BCH_ERR_fsck_errors_not_fixed
    /\ (GcExamines /\ ~GcMismatch) =>
            gc_walk'.pc = "walk" /\ gc_walk'.commits = gc_walk.commits
    /\ GcExamines => table' = table
    /\ GcCommitsDelta
    /\ GcRepairs

\* C10 (amended): for an entry of a known type whose live and shadow
\* counters differ when bch2_gc_accounting_done examines it, gc_done either
\* emits through the normal (write-buffer) path a delta of shadow minus live
\* per counter (fsck_err answers fix), or emits nothing and goes on to the
\* next entry (fsck_err answers ignore), or emits nothing and returns an
\* error (fsck_err fails); once an emitted delta is applied to the live
\* counters, with no other update to the entry since it was examined, live
\* equals shadow (live 105, shadow 100: delta -5, final value 100); entries
\* whose vectors are equal, and entries of unknown type, produce no delta.
C10_GcDoneDelta == [][C10_Step]_vars

\* live 105 and shadow 100 were found, the delta of -5 has been committed
\* and applied, and live is 100
C10_Witness ==
    /\ gc_walk.pc = "walk"
    /\ gc_walk.dst_v = <<105>>
    /\ gc_walk.commits =
            <<[p |-> disk_accounting_pos_to_bpos(PosDevDataType),
               d |-> <<CounterMod - 5>>]>>
    /\ LiveAt(table, gc_walk.acc_k) = <<100>>
    /\ ShadowAt(table, gc_walk.acc_k) = <<100>>

(***************************************************************************)
(* bch2_accounting_read(c): startup replay, run by the recovery thread     *)
(* while the filesystem is single threaded and not yet read-write.         *)
(***************************************************************************)
\* calls of bch2_accounting_read in one behaviour
MaxRuns == 2

\* ca->mi.bucket_size of every device
BucketSize == 2

\* the variables bch2_accounting_read shares with the update pipeline
core_vars == <<table, gc_running, mark_readers, mark_writer, sb_replicas,
               pc, op, ret, trans, nops, gc_ret, arg, cfg, gc_walk, may_go_rw>>

RecoveryThread == CHOOSE t \in cfg.threads : TRUE

BCH_ERR_mark_replicas_failed == "mark_replicas_failed"

\* enum bch_data_type
DataTypeNames == <<"free", "sb", "journal", "btree", "user", "cached", "parity">>
BCH_DATA(n) == (CHOOSE i \in 1..Len(DataTypeNames) : DataTypeNames[i] = n) - 1

\* bversion_cmp
bversion_cmp(l, r) == IF l < r THEN -1 ELSE IF l > r THEN 1 ELSE 0

\* journal_key_cmp(l, r) = 0: same btree, level and position
JournalKeySamePos(l, r) ==
    l.btree_id = r.btree_id /\ l.level = r.level /\ l.p = r.p

AccumulateKeepsDst(dst, src) == dst

\* bch2_accounting_accumulate(dst, src)
bch2_accounting_accumulate(dst, src) ==
    [dst EXCEPT !.d = [j \in 1..Len(dst.d) |-> (dst.d[j] + src.d[j]) % CounterMod],
                !.bversion = IF bversion_cmp(dst.bversion, src.bversion) < 0
                             THEN src.bversion ELSE dst.bversion]

\* bch2_replicas_entry_validate(&r.e, c, &buf) = 0, every device existing
ReplicasEntryValid(p) ==
    LET nr_devs == p[3]
        nr_required == p[4]
    IN  nr_devs # 0 /\ ~(nr_required > 1 /\ nr_required >= nr_devs)

\* fs_usage_data_type_to_base(usage, data_type, sectors)
fs_usage_data_type_to_base(u, data_type, sectors) ==
    CASE data_type = BCH_DATA("btree") ->
            [u EXCEPT !.btree = (@ + sectors) % CounterMod]
      [] data_type \in {BCH_DATA("user"), BCH_DATA("parity")} ->
            [u EXCEPT !.data = (@ + sectors) % CounterMod]
      [] data_type = BCH_DATA("cached") ->
            [u EXCEPT !.cached = (@ + sectors) % CounterMod]
      [] OTHER -> u

\* the body of the last loop of bch2_accounting_read for one entry
UsageAddEntry(u, e) ==
    LET k == bpos_to_disk_accounting_pos(e.pos)
        v == [j \in 1..3 |-> IF j <= e.nr_counters
                             THEN percpu_u64_get(e.v0, j) ELSE 0]
    IN  CASE k.type = "persistent_reserved" ->
                [u EXCEPT !.reserved = (@ + v[1] * k.nr_replicas) % CounterMod]
          [] k.type = "replicas" ->
                fs_usage_data_type_to_base(u, k.data_type, v[1])
          [] k.type = "dev_data_type" ->
                [u EXCEPT
                    !.dev = {x \in @ : ~(x.dev = k.dev /\ x.data_type = k.data_type)}
                            \cup {[dev |-> k.dev, data_type |-> k.data_type,
                                   buckets |-> v[1], sectors |-> v[2],
                                   fragmented |-> v[3]]},
                    !.hidden = IF k.data_type \in {BCH_DATA("sb"), BCH_DATA("journal")}
                               THEN (@ + v[1] * BucketSize) % CounterMod ELSE @]
          [] OTHER -> u

RECURSIVE UsageAddFrom(_, _, _)
UsageAddFrom(u, data, i) ==
    IF i > Len(data) THEN u
    ELSE UsageAddFrom(UsageAddEntry(u, data[i]), data, i + 1)

\* the live counters of every key of the table
LiveByKey(data) ==
    {[pos |-> data[i].pos, v |-> ReadCounters(data[i], FALSE)] : i \in 1..Len(data)}

\* return ret from bch2_accounting_read without holding mark_lock
ReadReturn(r) ==
    [acc_read EXCEPT !.pc = "done", !.ret = r]

\* "applied": the table has the key's position with a bversion that is not
\* older than the key's
JournalKeyNeverApplied(data, k) == FALSE

JournalKeyAppliedStrict(data, k) ==
    LET idx == eytzinger0_find(data, k.p)
    IN  /\ idx < Len(data)
        /\ bversion_cmp(data[idx + 1].bversion, k.bversion) > 0

JournalKeyApplied(data, k) ==
    LET idx == eytzinger0_find(data, k.p)
    IN  /\ idx < Len(data)
        /\ bversion_cmp(data[idx + 1].bversion, k.bversion) >= 0

\* entry: bch2_trans_get, no lock held
ReadBegin ==
    /\ acc_read.pc \in {"idle", "done"}
    /\ acc_read.pc = "done" => acc_read.ret = BCH_ERR_ok /\ acc_read.held = 0
    /\ acc_read.runs < MaxRuns
    /\ pc[RecoveryThread] = "idle"
    /\ acc_read' = [acc_read EXCEPT !.pc = "tree", !.i = 1, !.dst = 0,
                                    !.ret = BCH_ERR_ok, !.runs = @ + 1,
                                    !.applied = << >>,
                                    !.j0 = SubSeq(journal_keys.data, 1,
                                                  journal_keys.nr)]
    /\ UNCHANGED <<core_vars, btree, journal_keys, usage, ns_vars>>

\* for_each_btree_key(BTREE_ID_accounting): accounting_read_key on each key;
\* a failure leaves by "goto err"
ReadTree ==
    /\ acc_read.pc = "tree"
    /\ pc[RecoveryThread] = "idle"
    /\ IF ret[RecoveryThread] # BCH_ERR_ok
       THEN /\ acc_read' = ReadReturn(ret[RecoveryThread])
            /\ UNCHANGED core_vars
       ELSE IF acc_read.i > Len(btree)
       THEN /\ acc_read' = [acc_read EXCEPT !.pc = "journal", !.i = 1, !.dst = 0]
            /\ UNCHANGED core_vars
       ELSE /\ AccountingReadKeyCall(RecoveryThread, btree[acc_read.i])
            /\ acc_read' = [acc_read EXCEPT !.i = @ + 1]
    /\ UNCHANGED <<btree, journal_keys, usage, ns_vars>>

\* one iteration of darray_for_each(*keys, i), up to the call of
\* accounting_read_key; past the last key: keys->gap = keys->nr = dst and
\* percpu_down_read(&c->mark_lock)
ReadJournal ==
    /\ acc_read.pc = "journal"
    /\ pc[RecoveryThread] = "idle"
    /\ LET i == acc_read.i
       IN  IF i > journal_keys.nr
           THEN /\ mark_writer = 0
                /\ mark_readers' = mark_readers \cup {RecoveryThread}
                /\ journal_keys' = [journal_keys EXCEPT !.nr = acc_read.dst]
                /\ acc_read' = [acc_read EXCEPT !.pc = "replicas", !.i = 0,
                                                !.held = @ + 1]
                /\ UNCHANGED <<table, gc_running, mark_writer, sb_replicas, pc,
                               op, ret, trans, nops, gc_ret, arg, cfg, gc_walk,
                               may_go_rw>>
           ELSE LET k   == journal_keys.data[i]
                    applied == JournalKeyApplied(table, k)
                IN  IF k.type # "accounting"
                    THEN \* *dst++ = *i
                         /\ journal_keys' =
                              [journal_keys EXCEPT !.data[acc_read.dst + 1] = k]
                         /\ acc_read' = [acc_read EXCEPT !.i = @ + 1, !.dst = @ + 1]
                         /\ UNCHANGED core_vars
                    ELSE IF applied
                    THEN /\ acc_read' = [acc_read EXCEPT !.i = @ + 1]
                         /\ UNCHANGED <<core_vars, journal_keys>>
                    ELSE IF /\ i + 1 <= journal_keys.nr
                            /\ journal_keys.data[i + 1].type = "accounting"
                            /\ JournalKeySamePos(k, journal_keys.data[i + 1])
                    THEN /\ journal_keys' =
                              [journal_keys EXCEPT !.data[i + 1] =
                                  [bch2_accounting_accumulate(@, k)
                                      EXCEPT !.journal_seq = k.journal_seq]]
                         /\ acc_read' = [acc_read EXCEPT !.i = @ + 1]
                         /\ UNCHANGED core_vars
                    ELSE /\ AccountingReadKeyCall(RecoveryThread, k)
                         /\ acc_read' = [acc_read EXCEPT !.pc = "journal_wait"]
                         /\ UNCHANGED journal_keys
    /\ UNCHANGED <<btree, usage, ns_vars>>

\* accounting_read_key returned: the applied key is not copied to dst
ReadJournalDropped ==
    /\ acc_read.pc = "journal_wait"
    /\ pc[RecoveryThread] = "idle"
    /\ IF ret[RecoveryThread] # BCH_ERR_ok
       THEN acc_read' = ReadReturn(ret[RecoveryThread])
       ELSE acc_read' = [acc_read EXCEPT !.pc = "journal", !.i = @ + 1]
    /\ UNCHANGED <<core_vars, btree, usage, journal_keys, ns_vars>>

\* accounting_read_key returned: "goto err" on failure, else *dst++ = *i
ReadJournalKept ==
    /\ acc_read.pc = "journal_wait"
    /\ pc[RecoveryThread] = "idle"
    /\ IF ret[RecoveryThread] # BCH_ERR_ok
       THEN /\ acc_read' = ReadReturn(ret[RecoveryThread])
            /\ UNCHANGED journal_keys
       ELSE /\ journal_keys' =
                 [journal_keys EXCEPT !.data[acc_read.dst + 1] =
                                          journal_keys.data[acc_read.i]]
            /\ acc_read' = [acc_read EXCEPT
                               !.pc = "journal", !.i = @ + 1, !.dst = @ + 1,
                               !.applied = Append(@, journal_keys.data[acc_read.i])]
    /\ UNCHANGED <<core_vars, btree, usage, ns_vars>>

\* one entry of the walk over acc->k under mark_lock: zero, non-replicas and
\* invalid entries are passed over; an unmarked replicas entry is a fsck
\* error: fixing it drops mark_lock for bch2_mark_replicas
ReadReplicas(fsck) ==
    /\ acc_read.pc = "replicas"
    /\ LET i == acc_read.i
       IN  IF i >= Len(table)
           THEN /\ acc_read' = [acc_read EXCEPT !.pc = "usage"]
                /\ UNCHANGED mark_readers
           ELSE LET e == table[i + 1]
                IN  IF \/ \A j \in 1..e.nr_counters : percpu_u64_get(e.v0, j) = 0
                       \/ ~accounting_to_replicas(e.pos)
                       \/ ~ReplicasEntryValid(e.pos)
                       \/ bch2_replicas_marked_locked(e.pos)
                       \/ fsck = "ignore"
                    THEN /\ acc_read' = [acc_read EXCEPT !.i = @ + 1]
                         /\ UNCHANGED mark_readers
                    ELSE IF fsck = "fix"
                    THEN /\ mark_readers' = mark_readers \ {RecoveryThread}
                         /\ acc_read' = [acc_read EXCEPT !.pc = "mark",
                                                         !.held = @ - 1]
                    ELSE \* ret = -BCH_ERR_fsck_errors_not_fixed; goto fsck_err
                         /\ mark_readers' = mark_readers \ {RecoveryThread}
                         /\ acc_read' = [ReadReturn(BCH_ERR_fsck_errors_not_fixed)
                                            EXCEPT !.held = @ - 1]
    /\ UNCHANGED <<table, gc_running, mark_writer, sb_replicas, pc, op, ret,
                   trans, nops, gc_ret, arg, cfg, gc_walk, may_go_rw, btree,
                   journal_keys, usage, ns_vars>>

\* ret = bch2_mark_replicas(c, &r.e); if (ret) goto fsck_err;
\* percpu_down_read(&c->mark_lock).  The label fsck_err releases mark_lock.
ReadMark(ok) ==
    /\ acc_read.pc = "mark"
    /\ LET e == table[acc_read.i + 1]
       IN  IF ok
           THEN /\ mark_writer = 0
                /\ sb_replicas' = sb_replicas \cup {ReplicasEntry(e.pos)}
                /\ mark_readers' = mark_readers \cup {RecoveryThread}
                /\ acc_read' = [acc_read EXCEPT !.pc = "replicas", !.i = @ + 1,
                                                !.held = @ + 1]
           ELSE /\ mark_readers' = mark_readers \ {RecoveryThread}
                /\ acc_read' = [ReadReturn(BCH_ERR_mark_replicas_failed)
                                   EXCEPT !.held = @ - 1]
                /\ UNCHANGED sb_replicas
    /\ UNCHANGED <<table, gc_running, mark_writer, pc, op, ret, trans, nops,
                   gc_ret, arg, cfg, gc_walk, may_go_rw, btree, journal_keys,
                   usage, ns_vars>>

\* the loop filling c->usage and the devices' usage, then the fall through
\* fsck_err: percpu_up_read(&c->mark_lock) and err: return ret
ReadUsage ==
    /\ acc_read.pc = "usage"
    /\ usage' = UsageAddFrom(usage, table, 1)
    /\ mark_readers' = mark_readers \ {RecoveryThread}
    /\ acc_read' = [ReadReturn(BCH_ERR_ok) EXCEPT
                       !.held = @ - 1,
                       !.first = IF acc_read.runs = 1
                                 THEN [live |-> LiveByKey(table), usage |-> usage']
                                 ELSE @]
    /\ UNCHANGED <<table, gc_running, mark_writer, sb_replicas, pc, op, ret,
                   trans, nops, gc_ret, arg, cfg, gc_walk, may_go_rw, btree,
                   journal_keys, ns_vars>>

(***************************************************************************)
(* SpecRead: the recovery thread runs bch2_accounting_read, at most        *)
(* MaxRuns times, on an accounting btree and a set of journal keys drawn   *)
(* from the scenarios below; counter allocation may fail.                  *)
(***************************************************************************)
\* accounting_read_key calls the recovery thread may make
ReadCalls == 10

PosReplicasUser ==
    [type |-> "replicas", data_type |-> BCH_DATA("user"), nr_required |-> 1,
     devs |-> <<2, 5>>]
PosReserved2 == [type |-> "persistent_reserved", nr_replicas |-> 2]

\* a key of the accounting btree
BtreeKey(k, bversion, d) ==
    [p |-> disk_accounting_pos_to_bpos(k), bversion |-> bversion, d |-> d]

\* a journal key for the accounting btree, and one for another btree
JournalKey(k, bversion, d, seq) ==
    [type |-> "accounting", btree_id |-> "accounting", level |-> 0,
     p |-> disk_accounting_pos_to_bpos(k), bversion |-> bversion, d |-> d,
     journal_seq |-> seq]
OtherJournalKey(seq) ==
    [type |-> "other", btree_id |-> "extents", level |-> 0,
     p |-> Pad(<< >>), bversion |-> 0, d |-> << >>, journal_seq |-> seq]

\* contents of the accounting btree, in position order
BtreeChoices ==
    {<< >>,
     <<BtreeKey(PosNrInodes, 2, <<100>>), BtreeKey(PosReplicasUser, 1, <<5>>)>>,
     <<BtreeKey(PosReserved2, 1, <<7>>), BtreeKey(PosDevDataType, 1, <<3, 6, 1>>)>>}

\* contents of c->journal_keys, sorted by btree, position and sequence
JournalChoices ==
    {<< >>,
     <<JournalKey(PosNrInodes, 3, <<10>>, 1), JournalKey(PosNrInodes, 4, <<20>>, 2),
       JournalKey(PosNrInodes, 5, <<30>>, 3)>>,
     <<OtherJournalKey(1), JournalKey(PosNrInodes, 2, <<10>>, 1),
       JournalKey(PosReplicasUser, 3, <<1>>, 2)>>,
     <<JournalKey(PosNrInodes, 1, <<10>>, 1), JournalKey(PosNrInodes, 3, <<20>>, 2),
       JournalKey(PosDevDataType, 2, <<1, 2, 0>>, 2)>>}

InitRead ==
    /\ InitState([threads |-> {1}, updates |-> {}, reads |-> {},
                  maxops |-> ReadCalls, fails |-> {"none", "v0"}])
    /\ arg = [t \in {1} |-> NoArg]
    /\ may_go_rw = FALSE
    /\ btree \in BtreeChoices
    /\ \E j \in JournalChoices : journal_keys = [data |-> j, nr |-> Len(j)]
    /\ usage = UsageZero
    /\ acc_read = AccReadIdle
    /\ NsIdle

NextRead ==
    \/ ReadBegin
    \/ ReadTree
    \/ ReadJournal
    \/ ReadJournalKept
    \/ \E fsck \in FsckOutcomes : ReadReplicas(fsck)
    \/ \E ok \in BOOLEAN : ReadMark(ok)
    \/ ReadUsage
    \/ bch2_accounting_mem_mod_locked(RecoveryThread)
    \/ bch2_accounting_mem_insert_begin(RecoveryThread)
    \/ bch2_accounting_mem_insert_down_write(RecoveryThread)
    \/ \E fail \in cfg.fails : bch2_accounting_mem_insert_locked(RecoveryThread, fail)
    \/ bch2_accounting_mem_insert_down_read(RecoveryThread)
    \/ percpu_up_read(RecoveryThread)

SpecRead == InitRead /\ [][NextRead]_vars

\* the journal keys still pending
PendingKeys == SubSeq(journal_keys.data, 1, journal_keys.nr)

\* the journal pass of the current run has finished
JournalPassDone ==
    acc_read.pc \in {"replicas", "mark", "usage"}
    \/ (acc_read.pc = "done" /\ acc_read.ret # BCH_ERR_ENOMEM_disk_accounting)

IsAccountingKey(k) == k.type = "accounting"

IsOtherKey(k) == k.type # "accounting"

(***************************************************************************)
(* C11.  The journal pass of bch2_accounting_read and the pending set.     *)
(***************************************************************************)
\* C11 as stated: once the journal pass has finished, every accounting key
\* of the journal, whether skipped, merged or applied, is gone from the
\* pending set.
C11_AsStated ==
    JournalPassDone => \A i \in 1..journal_keys.nr : IsOtherKey(journal_keys.data[i])

\* one step of the journal pass: a skipped or merged accounting key is not
\* copied to dst, a merged key hands its deltas and its sequence number to
\* its successor, a key that accounting_read_key applied is copied to dst,
\* and the pass ends by cutting the set at dst
C11_Step ==
    LET i == acc_read.i
    IN  /\ ( /\ acc_read.pc = "journal" /\ acc_read'.pc = "journal"
             /\ acc_read'.i = i + 1
             /\ IsAccountingKey(journal_keys.data[i]) )
           => /\ acc_read'.dst = acc_read.dst
              /\ journal_keys' # journal_keys
                   => journal_keys'.data[i + 1] =
                        [bch2_accounting_accumulate(journal_keys.data[i + 1],
                                                    journal_keys.data[i])
                            EXCEPT !.journal_seq = journal_keys.data[i].journal_seq]
        /\ (acc_read.pc = "journal_wait" /\ acc_read'.pc = "journal")
           => /\ acc_read'.dst = acc_read.dst + 1
              /\ journal_keys'.data[acc_read'.dst] = journal_keys.data[i]
        /\ (acc_read.pc = "journal" /\ acc_read'.pc = "replicas")
           => journal_keys'.nr = acc_read.dst

\* after the journal pass the pending accounting keys are the keys that were
\* applied to the table in this pass, one for each position, and the keys of
\* other btrees are all still pending, in their order
C11_State ==
    JournalPassDone =>
        /\ SelectSeq(PendingKeys, IsAccountingKey) = acc_read.applied
        /\ SelectSeq(PendingKeys, IsOtherKey) = SelectSeq(acc_read.j0, IsOtherKey)
        /\ \A i, j \in 1..journal_keys.nr :
              (i < j /\ IsAccountingKey(PendingKeys[i])
                     /\ IsAccountingKey(PendingKeys[j]))
              => PendingKeys[i].p # PendingKeys[j].p

\* C11: in the journal pass of bch2_accounting_read a journal accounting key
\* that is skipped as already applied, or merged into its successor, is
\* dropped from the pending set, while a key that is applied to the counter
\* table stays pending, carrying the deltas merged into it; keys of other
\* btrees stay pending.
C11_JournalPass == [](C11_State) /\ [][C11_Step]_vars

\* three keys +10, +20, +30 for one position, nothing in the btree: after
\* one run the first two are gone and the third is pending with 60 and the
\* first key's sequence number, and the counter is 60
C11_Witness ==
    /\ acc_read.pc = "done" /\ acc_read.ret = BCH_ERR_ok /\ acc_read.runs = 1
    /\ Len(acc_read.j0) = 3
    /\ \A i \in 1..3 : acc_read.j0[i].p = disk_accounting_pos_to_bpos(PosNrInodes)
    /\ journal_keys.nr = 1
    /\ PendingKeys[1].d = <<60>> /\ PendingKeys[1].journal_seq = 1
    /\ LiveByKey(table) = {[pos |-> disk_accounting_pos_to_bpos(PosNrInodes),
                            v |-> <<60>>]}

(***************************************************************************)
(* C12.  Running bch2_accounting_read again on what a run left behind.     *)
(***************************************************************************)
\* a run of bch2_accounting_read has returned 0
RunDone(n) ==
    acc_read.pc = "done" /\ acc_read.ret = BCH_ERR_ok /\ acc_read.runs = n

\* C12 as stated: a second run on the table and the pending set left by the
\* first yields the same counter values and the same aggregates.
C12_AsStated ==
    RunDone(2) => /\ LiveByKey(table) = acc_read.first.live
                  /\ usage = acc_read.first.usage

HasBtreeKey(p) == \E i \in 1..Len(btree) : btree[i].p = p

VecAdd(a, b) == [j \in 1..Len(a) |-> (a[j] + b[j]) % CounterMod]

\* the value of the btree key at p plus the deltas, each once, of the keys
\* of js from index i on that are at p and newer than the btree key
RECURSIVE ReplayValue(_, _, _, _)
ReplayValue(p, v, js, i) ==
    IF i > Len(js) THEN v
    ELSE LET k == js[i]
             counts ==
                /\ IsAccountingKey(k) /\ k.p = p
                /\ \A b \in 1..Len(btree) :
                      btree[b].p = p => btree[b].bversion < k.bversion
         IN  ReplayValue(p, IF counts THEN VecAdd(v, k.d) ELSE v, js, i + 1)

BtreeValue(p, n) ==
    IF HasBtreeKey(p)
    THEN (CHOOSE b \in {btree[i] : i \in 1..Len(btree)} : b.p = p).d
    ELSE [j \in 1..n |-> 0]

\* the first run, from an empty table: every key of the btree and every
\* journal key has an entry, whose value is the btree value plus, each once,
\* the journal deltas newer than the btree key; the aggregates come from
\* these values
C12_FirstRun ==
    RunDone(1) =>
        /\ \A i \in 1..Len(btree) : eytzinger0_find(table, btree[i].p) < Len(table)
        /\ \A i \in 1..Len(table) :
              ReadCounters(table[i], FALSE) =
                 ReplayValue(table[i].pos,
                             BtreeValue(table[i].pos, table[i].nr_counters),
                             acc_read.j0, 1)
        /\ usage = UsageAddFrom(UsageZero, table, 1)

\* the second run adds the btree value and the newer journal deltas again
\* for every position that has a btree key, leaves the other counters as
\* they were, and adds the values to the aggregates of the first run
C12_SecondRun ==
    RunDone(2) =>
        /\ \A e \in acc_read.first.live :
              \E i \in 1..Len(table) :
                 /\ table[i].pos = e.pos
                 /\ ReadCounters(table[i], FALSE) =
                       IF HasBtreeKey(e.pos) THEN VecAdd(e.v, e.v) ELSE e.v
        /\ Len(table) = Cardinality(acc_read.first.live)
        /\ usage = UsageAddFrom(acc_read.first.usage, table, 1)

\* C12: bch2_accounting_read is additive, not idempotent.  Run once from an
\* empty table and zero aggregates it counts every btree value and every
\* journal delta newer than the btree key exactly once; run again on the
\* table and the pending set it left, it adds the btree values, the pending
\* deltas newer than the btree keys and the aggregates a second time.
C12_ReplayAdds == C12_FirstRun /\ C12_SecondRun

\* a second run has finished on a btree key of 100 with an older journal
\* delta of 10 and a newer one of 20: the counter is 120 after the first run
\* and 240 after the second
C12_Witness ==
    /\ RunDone(2)
    /\ \E e \in acc_read.first.live :
          /\ e.pos = disk_accounting_pos_to_bpos(PosNrInodes)
          /\ e.v = <<120>>
          /\ \E i \in 1..Len(table) :
                table[i].pos = e.pos /\ ReadCounters(table[i], FALSE) = <<240>>

(***************************************************************************)
(* C13.  mark_lock in bch2_accounting_read: acc_read.held counts the       *)
(* percpu_down_read calls of the function body minus its percpu_up_read    *)
(* calls.                                                                  *)
(***************************************************************************)
\* C13: every acquisition of mark_lock in bch2_accounting_read is matched by
\* exactly one release on every exit path: the lock is never released while
\* it is not held, and it is not held when the function returns.
C13_AsStated ==
    /\ acc_read.held \in {0, 1}
    /\ acc_read.pc \in {"idle", "done"} => acc_read.held = 0

\* bch2_mark_replicas failed after mark_lock had been dropped for it, and
\* the fsck_err label released mark_lock once more
C13_DoubleRelease ==
    /\ acc_read.pc = "done"
    /\ acc_read.ret = BCH_ERR_mark_replicas_failed
    /\ acc_read.held = -1

(***************************************************************************)
(* The VFS entry points of fs.c and their transaction retry loops.  A      *)
(* transaction attempt ends in success, in a transaction restart or in     *)
(* another error; vfs.tries counts the restarts of the call in progress.   *)
(***************************************************************************)
\* restarts one call may see
MaxTries == 3
\* calls in one behaviour
MaxCalls == 2

BCH_ERR_transaction_restart == "transaction_restart"

\* what a btree transaction step can return
TransOutcomes == {BCH_ERR_ok, BCH_ERR_transaction_restart, "EIO"}

VfsFns == {"bch2_write_inode", "__bch2_create", "bch2_rename2",
           "bch2_setattr_nonsize", "bch2_vfs_inode_get"}

\* the first step of each entry point
VfsEntry(fn) ==
    CASE fn = "bch2_write_inode" -> "retry"
      [] fn = "__bch2_create" -> "prealloc"
      [] fn = "bch2_rename2" -> "is_ro"
      [] fn = "bch2_setattr_nonsize" -> "quota"
      [] OTHER -> "hash_find"

VfsReturn(r) == [vfs EXCEPT !.pc = "done", !.ret = r]

core_read_vars == <<core_vars, read_vars>>

VfsCall(fn) ==
    /\ vfs.pc \in {"idle", "done"}
    /\ vfs.calls < MaxCalls
    /\ vfs' = [fn |-> fn, pc |-> VfsEntry(fn), ret |-> BCH_ERR_ok, tries |-> 0,
               calls |-> vfs.calls + 1]
    /\ UNCHANGED <<core_read_vars, fs, last>>

\* retry: bch2_trans_begin(trans); the transaction's steps and its commit;
\* if (bch2_err_matches(ret, BCH_ERR_transaction_restart)) goto retry
RetryLoop(fn, out) ==
    /\ vfs.fn = fn /\ vfs.pc = "retry"
    /\ out = BCH_ERR_transaction_restart => vfs.tries < MaxTries
    /\ vfs' = IF out = BCH_ERR_transaction_restart
              THEN [vfs EXCEPT !.tries = @ + 1]
              ELSE VfsReturn(out)
    /\ UNCHANGED <<core_read_vars, fs, last>>

bch2_write_inode(out) == RetryLoop("bch2_write_inode", out)

\* posix_acl_create and __bch2_new_inode, before the transaction
CreatePrealloc(ok) ==
    /\ vfs.fn = "__bch2_create" /\ vfs.pc = "prealloc"
    /\ vfs' = IF ok THEN [vfs EXCEPT !.pc = "retry"] ELSE VfsReturn("ENOMEM")
    /\ UNCHANGED <<core_read_vars, fs, last>>

\* the loop of __bch2_create: a failure of bch2_create_trans or of the
\* commit goes through err_before_quota
CreateRetry(out) == RetryLoop("__bch2_create", out)

\* bch2_rename2 before its retry label: bch2_subvol_is_ro_trans on both
\* directories, "if (ret) goto err"
RenameIsRo(out) ==
    /\ vfs.fn = "bch2_rename2" /\ vfs.pc = "is_ro"
    /\ vfs' = IF out = BCH_ERR_ok THEN [vfs EXCEPT !.pc = "retry"]
              ELSE VfsReturn(out)
    /\ UNCHANGED <<core_read_vars, fs, last>>

\* the loop of bch2_rename2: err_tx_restart
RenameRetry(out) == RetryLoop("bch2_rename2", out)

\* bch2_fs_quota_transfer before the transaction of bch2_setattr_nonsize
SetattrQuota(ok) ==
    /\ vfs.fn = "bch2_setattr_nonsize" /\ vfs.pc = "quota"
    /\ vfs' = IF ok THEN [vfs EXCEPT !.pc = "retry"] ELSE VfsReturn("EDQUOT")
    /\ UNCHANGED <<core_read_vars, fs, last>>

\* the loop of bch2_setattr_nonsize: btree_err
SetattrRetry(out) == RetryLoop("bch2_setattr_nonsize", out)

\* bch2_vfs_inode_get: bch2_inode_hash_find(c, NULL, inum)
InodeGetHashFind(hit) ==
    /\ vfs.fn = "bch2_vfs_inode_get" /\ vfs.pc = "hash_find"
    /\ vfs' = IF hit THEN VfsReturn(BCH_ERR_ok)
              ELSE [vfs EXCEPT !.pc = "lockrestart"]
    /\ UNCHANGED <<core_read_vars, fs, last>>

\* lockrestart_do(trans, bch2_subvolume_get ?: bch2_inode_find_by_inum_trans)
InodeGetLockrestart(out) ==
    /\ vfs.fn = "bch2_vfs_inode_get" /\ vfs.pc = "lockrestart"
    /\ out = BCH_ERR_transaction_restart => vfs.tries < MaxTries
    /\ vfs' = CASE out = BCH_ERR_transaction_restart ->
                      [vfs EXCEPT !.tries = @ + 1]
                [] out = BCH_ERR_ok -> [vfs EXCEPT !.pc = "new_inode"]
                [] OTHER -> VfsReturn(out)
    /\ UNCHANGED <<core_read_vars, fs, last>>

\* bch2_new_inode, called after lockrestart_do has returned: when the first
\* allocation fails, drop_locks_do allocates again with the locks dropped
\* and relocks; alloc2 is the second allocation's success, relock the
\* success of bch2_trans_relock
bch2_new_inode(alloc1, alloc2, relock) ==
    /\ vfs.fn = "bch2_vfs_inode_get" /\ vfs.pc = "new_inode"
    /\ vfs' = IF alloc1 THEN [vfs EXCEPT !.pc = "hash_insert"]
              ELSE IF ~alloc2 THEN VfsReturn("ENOMEM")
              ELSE IF ~relock THEN VfsReturn(BCH_ERR_transaction_restart)
              ELSE [vfs EXCEPT !.pc = "hash_insert"]
    /\ UNCHANGED <<core_read_vars, fs, last>>

\* bch2_inode_hash_insert(c, trans, inode): inserted; or an inode with this
\* number is in the table and is returned; or that inode is being freed, and
\* bch2_inode_hash_find drops the locks, waits and relocks
bch2_inode_hash_insert(raced, freeing, relock) ==
    /\ vfs.fn = "bch2_vfs_inode_get" /\ vfs.pc = "hash_insert"
    /\ vfs' = IF ~raced \/ ~freeing THEN VfsReturn(BCH_ERR_ok)
              ELSE IF ~relock THEN VfsReturn(BCH_ERR_transaction_restart)
              ELSE vfs
    /\ UNCHANGED <<core_read_vars, fs, last>>

InitVfs ==
    /\ InitState([threads |-> {1}, updates |-> {}, reads |-> {},
                  maxops |-> 0, fails |-> {"none"}])
    /\ arg = [t \in {1} |-> NoArg]
    /\ may_go_rw = TRUE
    /\ ReadIdle
    /\ NsIdle

NextVfs ==
    \/ \E fn \in VfsFns : VfsCall(fn)
    \/ \E out \in TransOutcomes : bch2_write_inode(out)
    \/ \E ok \in BOOLEAN : CreatePrealloc(ok)
    \/ \E out \in TransOutcomes : CreateRetry(out)
    \/ \E out \in TransOutcomes : RenameIsRo(out)
    \/ \E out \in TransOutcomes : RenameRetry(out)
    \/ \E ok \in BOOLEAN : SetattrQuota(ok)
    \/ \E out \in TransOutcomes : SetattrRetry(out)
    \/ \E hit \in BOOLEAN : InodeGetHashFind(hit)
    \/ \E out \in TransOutcomes : InodeGetLockrestart(out)
    \/ \E a1, a2, rl \in BOOLEAN : bch2_new_inode(a1, a2, rl)
    \/ \E raced, freeing, rl \in BOOLEAN : bch2_inode_hash_insert(raced, freeing, rl)

SpecVfs == InitVfs /\ [][NextVfs]_vars

(***************************************************************************)
(* C14.  Transaction restarts and the VFS entry points.                    *)
(***************************************************************************)
\* C14: no entry point returns a transaction-restart error to its caller:
\* bch2_write_inode, __bch2_create, bch2_rename2, bch2_setattr_nonsize and
\* bch2_vfs_inode_get retry from the top instead.
C14_AsStated ==
    vfs.pc = "done" => vfs.ret # BCH_ERR_transaction_restart

\* bch2_vfs_inode_get has returned a transaction restart that came from the
\* allocation or the hash insert after its lockrestart_do
C14_RestartEscapes ==
    /\ vfs.fn = "bch2_vfs_inode_get"
    /\ vfs.pc = "done"
    /\ vfs.ret = BCH_ERR_transaction_restart

(***************************************************************************)
(* The namespace: fs.inodes maps <<subvolume, inode number>> to an         *)
(* unpacked inode, fs.dirents maps <<subvolume, directory inode number,    *)
(* offset>> to a dirent, fs.subvols maps a subvolume id to its record.     *)
(* A key <<s, ...>> is what subvolume s sees at that position; the         *)
(* snapshot field of a subvolume is its current snapshot id and the        *)
(* snapshot field of a dirent the snapshot id its key is stored at, an     *)
(* ancestor of the subvolume's when the subvolume was snapshotted after    *)
(* the key was written.  A transaction function is an operator             *)
(* from the btrees to its return value and the btrees with its updates     *)
(* staged; the caller commits them when the function returned 0.           *)
(***************************************************************************)
BCACHEFS_ROOT_SUBVOL == 1
BCACHEFS_ROOT_INO == 1

Names == {"a", "bb", "longname"}

\* name->len
NameLen(name) ==
    CASE name = "a" -> 1 [] name = "bb" -> 2 [] OTHER -> 8

\* bch2_dirent_hash(hash_info, name): the slot of a name, without collisions
NameOffset(name) ==
    CASE name = "a" -> 1 [] name = "bb" -> 2 [] OTHER -> 3

\* dirent_occupied_size(name): the bytes of the bkey and of the dirent value
\* rounded up to u64s
dirent_occupied_size(name) ==
    (5 + ((9 + NameLen(name) + 7) \div 8)) * 8

Put(f, k, v) == [x \in (DOMAIN f) \cup {k} |-> IF x = k THEN v ELSE f[x]]
Del(f, k) == [x \in (DOMAIN f) \ {k} |-> f[x]]

\* bch2_inode_init_early, bch2_inode_init_late
NewInode(isdir, now, dir_u) ==
    [dir |-> isdir, bi_subvol |-> 0, bi_parent_subvol |-> 0, bi_nlink |-> 0,
     bi_size |-> 0, bi_dir |-> 0, bi_dir_offset |-> 0, bi_mtime |-> now,
     bi_ctime |-> now, unlinked |-> FALSE, bi_depth |-> 0]

\* is_subdir_for_nlink
is_subdir_for_nlink(inode) == inode.dir /\ inode.bi_subvol = 0

BoolInt(b) == IF b THEN 1 ELSE 0

\* bch2_inode_create: an inode number no inode has
NextInum(f) ==
    1 + (CHOOSE m \in {k[2] : k \in DOMAIN f.inodes} \cup {0} :
            \A k \in DOMAIN f.inodes : k[2] <= m)

\* bch2_subvolume_create: a subvolume id no subvolume has
NextSubvol(f) ==
    1 + (CHOOSE m \in (DOMAIN f.subvols) \cup {0} :
            \A k \in DOMAIN f.subvols : k <= m)

\* bch2_inode_nlink_inc, bch2_inode_nlink_dec
bch2_inode_nlink_inc(inode) ==
    IF inode.unlinked THEN [inode EXCEPT !.unlinked = FALSE]
    ELSE [inode EXCEPT !.bi_nlink = @ + 1]

bch2_inode_nlink_dec(inode) ==
    IF inode.unlinked THEN inode
    ELSE IF inode.bi_nlink > 0 THEN [inode EXCEPT !.bi_nlink = @ - 1]
    ELSE [inode EXCEPT !.unlinked = TRUE]

\* bch2_dirent_read_target: the subvol_inum a dirent names
DirentTarget(f, dir, d) ==
    IF d.type = "subvol" THEN <<d.target, f.subvols[d.target].inode>>
    ELSE <<dir[1], d.target>>

DirentKey(dir, name) == <<dir[1], dir[2], NameOffset(name)>>

EmptyDirAlways(f, inum) == TRUE

\* bch2_empty_dir_trans(trans, inum) = 0
EmptyDir(f, inum) ==
    \A k \in DOMAIN f.dirents : ~(k[1] = inum[1] /\ k[2] = inum[2])

\* bch2_subvol_has_children(trans, subvol) = 0
NoSubvolChildren(f, subvol) ==
    \A s \in DOMAIN f.subvols :
        f.subvols[s].unlinked \/ f.subvols[s].fs_path_parent # subvol

Result(r, f) == [ret |-> r, fs |-> f]

\* bch2_snapshot_node_create: a snapshot id no subvolume has or had
NextSnapshot(f) ==
    1 + (CHOOSE m \in {f.subvols[s].snapshot : s \in DOMAIN f.subvols} \cup {0} :
            \A s \in DOMAIN f.subvols : f.subvols[s].snapshot <= m)

\* bch2_subvolume_get_snapshot
SubvolSnapshot(f, subvol) == f.subvols[subvol].snapshot

\* bch2_subvolume_create(trans, inode, parent, src_subvol, ...): the new
\* subvolume record, with a new snapshot id; when a subvolume is
\* snapshotted it moves to a new snapshot id too, and the snapshot sees
\* every inode and every dirent of the source subvolume, except the
\* dirents of child subvolumes, whose d_parent_subvol is not the snapshot
bch2_subvolume_create(f, new_subvol, inum, parent, src_subvol) ==
    LET sv0 == Put(f.subvols, new_subvol,
                   [inode |-> inum, fs_path_parent |-> parent,
                    unlinked |-> FALSE, snapshot |-> NextSnapshot(f)])
        sv == IF src_subvol = 0 THEN sv0
              ELSE [sv0 EXCEPT ![src_subvol].snapshot = NextSnapshot(f) + 1]
        ikeys == {k \in DOMAIN f.inodes : k[1] = src_subvol}
        dkeys == {k \in DOMAIN f.dirents :
                    k[1] = src_subvol /\ f.dirents[k].type # "subvol"}
    IN  IF src_subvol = 0 THEN [f EXCEPT !.subvols = sv]
        ELSE [subvols |-> sv,
              inodes  |-> [k \in (DOMAIN f.inodes)
                                   \cup {<<new_subvol, x[2]>> : x \in ikeys} |->
                              IF k[1] = new_subvol
                              THEN f.inodes[<<src_subvol, k[2]>>]
                              ELSE f.inodes[k]],
              dirents |-> [k \in (DOMAIN f.dirents)
                                   \cup {<<new_subvol, x[2], x[3]>> : x \in dkeys} |->
                              IF k[1] = new_subvol
                              THEN f.dirents[<<src_subvol, k[2], k[3]>>]
                              ELSE f.dirents[k]]]

\* bch2_create_trans(trans, dir, dir_u, new_inode, name, ..., mode, ...,
\* snapshot_src, flags); kind is the mode and the flags: "reg", "dir",
\* "tmpfile" (BCH_CREATE_TMPFILE), "subvol" (BCH_CREATE_SUBVOL) or
\* "snapshot" (BCH_CREATE_SNAPSHOT of the directory's subvolume)
bch2_create_trans(f, dir, name, kind, now) ==
    IF dir \notin DOMAIN f.inodes THEN Result("ENOENT", f)
    ELSE
    LET dir_u == f.inodes[dir]
        snapshot_src == IF kind = "snapshot" THEN dir[1] ELSE 0
        src_inum == IF kind = "snapshot"
                    THEN <<snapshot_src, f.subvols[snapshot_src].inode>>
                    ELSE dir
        inum0 == IF kind = "snapshot" THEN src_inum[2] ELSE NextInum(f)
        new0 == IF kind = "snapshot" THEN f.inodes[src_inum]
                ELSE [NewInode(kind \in {"dir", "subvol"}, now, dir_u)
                         EXCEPT !.unlinked = (kind = "tmpfile")]
        subvol == kind \in {"subvol", "snapshot"}
        new_subvol == NextSubvol(f)
        f1 == IF subvol
              THEN bch2_subvolume_create(f, new_subvol, inum0, dir[1], snapshot_src)
              ELSE f
        new1 == IF subvol
                THEN [new0 EXCEPT !.bi_parent_subvol = dir[1],
                                  !.bi_subvol = new_subvol]
                ELSE new0
        dir_target == IF subvol THEN new_subvol ELSE inum0
        dir_type == IF subvol THEN "subvol"
                    ELSE IF kind = "dir" THEN "dir" ELSE "reg"
        dkey == DirentKey(dir, name)
        dir1 == [dir_u EXCEPT
                    !.bi_nlink = @ + BoolInt(is_subdir_for_nlink(new1)),
                    !.bi_mtime = now, !.bi_ctime = now,
                    !.bi_size = @ + dirent_occupied_size(name)]
        f2 == IF kind = "tmpfile" THEN f1
              ELSE [f1 EXCEPT
                       !.inodes = Put(@, dir, dir1),
                       !.dirents = Put(@, dkey,
                                       [name |-> name, type |-> dir_type,
                                        target |-> dir_target,
                                        snapshot |-> SubvolSnapshot(f1, dir[1])])]
        new2 == IF kind = "tmpfile" THEN new1
                ELSE [new1 EXCEPT !.bi_dir = dir[2],
                                  !.bi_dir_offset = dkey[3]]
        new3 == IF new2.dir /\ new2.bi_subvol = 0
                THEN [new2 EXCEPT !.bi_depth = dir_u.bi_depth + 1]
                ELSE new2
        key == <<IF subvol THEN new_subvol ELSE dir[1], inum0>>
    IN  IF kind = "snapshot" /\ f.inodes[src_inum].bi_subvol # snapshot_src
        THEN Result("EINVAL", f)
        ELSE IF kind # "tmpfile" /\ dkey \in DOMAIN f.dirents
        THEN Result("EEXIST", f2)
        ELSE Result(BCH_ERR_ok, [f2 EXCEPT !.inodes = Put(@, key, new3)])

LinkNeverCrossesSubvol(dir, inum) == FALSE

\* the first test of bch2_link_trans: dir.subvol != inum.subvol
LinkCrossesSubvol(dir, inum) == dir[1] # inum[1]

\* bch2_link_trans(trans, dir, dir_u, inum, inode_u, name); reinherit is
\* what bch2_reinherit_attrs(inode_u, dir_u) returns
bch2_link_trans(f, dir, inum, name, reinherit, now) ==
    IF LinkCrossesSubvol(dir, inum) THEN Result("EXDEV", f)
    ELSE IF inum \notin DOMAIN f.inodes THEN Result("ENOENT", f)
    ELSE
    LET inode1 == bch2_inode_nlink_inc([f.inodes[inum] EXCEPT !.bi_ctime = now])
        dkey == DirentKey(dir, name)
    IN  IF dir \notin DOMAIN f.inodes THEN Result("ENOENT", f)
        ELSE IF reinherit THEN Result("EXDEV", f)
        ELSE IF dkey \in DOMAIN f.dirents THEN Result("EEXIST", f)
        ELSE
        LET dir1 == [f.inodes[dir] EXCEPT
                        !.bi_mtime = now, !.bi_ctime = now,
                        !.bi_size = @ + dirent_occupied_size(name)]
            inode2 == [inode1 EXCEPT !.bi_dir = dir[2],
                                     !.bi_dir_offset = dkey[3]]
        IN  Result(BCH_ERR_ok,
                   [f EXCEPT
                      !.dirents = Put(@, dkey,
                                      [name |-> name,
                                       type |-> IF inode1.dir THEN "dir" ELSE "reg",
                                       target |-> inum[2],
                                       snapshot |-> SubvolSnapshot(f, dir[1])]),
                      !.inodes = Put(Put(@, dir, dir1), inum, inode2)])

UnlinkNeverSubvol(deleting_subvol, inode_u) == FALSE

\* the test "deleting_subvol || inode_u->bi_subvol" of bch2_unlink_trans
UnlinkSubvol(deleting_subvol, inode_u) ==
    deleting_subvol \/ inode_u.bi_subvol # 0

UnlinkBackpointerAlways(inode_u, dkey) == TRUE

\* the test of bch2_unlink_trans before it clears the back-pointer: bi_dir
\* and bi_dir_offset are the inode and the offset of the dirent's position
UnlinkBackpointerIsDirent(inode_u, dkey) ==
    inode_u.bi_dir = dkey[2] /\ inode_u.bi_dir_offset = dkey[3]

\* bch2_unlink_trans(trans, dir, dir_u, inode_u, name, deleting_subvol);
\* del_snapshot is the snapshot id bch2_hash_delete_at deletes the dirent
\* in: that of the iterator, which is the subvolume's unless
\* bch2_btree_iter_set_snapshot moved it to the key's
bch2_unlink_trans(f, dir, name, deleting_subvol, now) ==
    LET dkey == DirentKey(dir, name)
        Err(e) == [ret |-> e, fs |-> f, del_snapshot |-> 0]
    IN  IF dir \notin DOMAIN f.inodes \/ dkey \notin DOMAIN f.dirents
        THEN Err("ENOENT")
        ELSE
        LET inum == DirentTarget(f, dir, f.dirents[dkey])
        IN  IF inum \notin DOMAIN f.inodes THEN Err("ENOENT")
            ELSE
            LET inode_u == f.inodes[inum]
                sub == UnlinkSubvol(deleting_subvol, inode_u)
            IN  IF ~deleting_subvol /\ inode_u.dir /\ ~EmptyDir(f, inum)
                THEN Err("ENOTEMPTY")
                ELSE IF deleting_subvol /\ inode_u.bi_subvol = 0
                THEN Err("ENOENT_not_subvol")
                ELSE IF inode_u.bi_subvol # 0
                        /\ ~NoSubvolChildren(f, inode_u.bi_subvol)
                THEN Err("ENOTEMPTY")
                ELSE
                LET f1 == IF sub
                          THEN [f EXCEPT !.subvols[inode_u.bi_subvol].unlinked = TRUE]
                          ELSE f
                    i1 == IF sub THEN inode_u ELSE bch2_inode_nlink_dec(inode_u)
                    i2 == IF UnlinkBackpointerIsDirent(i1, dkey)
                          THEN [i1 EXCEPT !.bi_dir = 0, !.bi_dir_offset = 0]
                          ELSE i1
                    i3 == [i2 EXCEPT !.bi_ctime = now]
                    dir1 == [f.inodes[dir] EXCEPT
                                !.bi_mtime = now, !.bi_ctime = now,
                                !.bi_nlink = @ - BoolInt(is_subdir_for_nlink(inode_u)),
                                !.bi_size = @ - dirent_occupied_size(name)]
                IN  [ret |-> BCH_ERR_ok,
                     fs |-> [f1 EXCEPT !.dirents = Del(@, dkey),
                                       !.inodes = Put(Put(@, dir, dir1), inum, i3)],
                     del_snapshot |-> IF sub THEN f.dirents[dkey].snapshot
                                      ELSE SubvolSnapshot(f, dir[1])]

\* enum bch_rename_mode
RenameModes == {"BCH_RENAME", "BCH_RENAME_OVERWRITE", "BCH_RENAME_EXCHANGE"}

NoInum == <<0, 0>>

RenameSrcOffsetOfSource(mode, skey, dkey) == skey[3]

\* the offset bch2_dirent_rename stores in *src_offset
RenameSrcOffset(mode, skey, dkey) ==
    IF mode = "BCH_RENAME_EXCHANGE" THEN skey[3] ELSE dkey[3]

\* bch2_dirent_rename: looks up the source dirent and, unless the mode is
\* BCH_RENAME, the destination dirent; puts the source's target under the
\* destination name; in mode BCH_RENAME_EXCHANGE puts the destination's
\* target under the source name, otherwise deletes the source dirent.  It
\* returns in dst_offset the slot of the new destination dirent, and in
\* src_offset the slot of the new source dirent in mode
\* BCH_RENAME_EXCHANGE and the destination slot in the other modes.
bch2_dirent_rename(f, src_dir, dst_dir, src_name, dst_name, mode) ==
    LET skey == DirentKey(src_dir, src_name)
        dkey == DirentKey(dst_dir, dst_name)
        none == [ret |-> "ENOENT", fs |-> f, src_inum |-> NoInum,
                 dst_inum |-> NoInum, src_offset |-> 0, dst_offset |-> 0]
    IN  IF skey \notin DOMAIN f.dirents THEN none
        ELSE IF mode # "BCH_RENAME" /\ dkey \notin DOMAIN f.dirents THEN none
        ELSE
        LET old_src == f.dirents[skey]
            new_dst == [old_src EXCEPT !.name = dst_name,
                                       !.snapshot = SubvolSnapshot(f, dst_dir[1])]
            d1 == IF mode = "BCH_RENAME_EXCHANGE"
                  THEN Put(f.dirents, skey,
                           [f.dirents[dkey] EXCEPT
                               !.name = src_name,
                               !.snapshot = SubvolSnapshot(f, src_dir[1])])
                  ELSE Del(f.dirents, skey)
        IN  [ret |-> BCH_ERR_ok,
             fs |-> [f EXCEPT !.dirents = Put(d1, dkey, new_dst)],
             src_inum |-> DirentTarget(f, src_dir, old_src),
             dst_inum |-> IF mode = "BCH_RENAME" THEN NoInum
                          ELSE DirentTarget(f, dst_dir, f.dirents[dkey]),
             src_offset |-> RenameSrcOffset(mode, skey, dkey),
             dst_offset |-> dkey[3]]

subvol_keep_parent(f, subvol, new_parent) == f

\* subvol_update_parent
subvol_update_parent(f, subvol, new_parent) ==
    [f EXCEPT !.subvols[subvol].fs_path_parent = new_parent]

RenameNeverCrossesSubvol(src_dir, dst_dir, src_inode_u, dst_inum, dst_inode_u) ==
    FALSE

\* the check "Can't move across subvolumes, unless it's a subvolume root"
RenameCrossesSubvol(src_dir, dst_dir, src_inode_u, dst_inum, dst_inode_u) ==
    /\ src_dir[1] # dst_dir[1]
    /\ \/ src_inode_u.bi_subvol = 0
       \/ (dst_inum[2] # 0 /\ dst_inode_u.bi_subvol = 0)

\* the bi_size updates of the two directories; d is the destination
\* directory's inode, which is the source's when they are one directory
RenameSizes(mode, sd, d, same, src_name, dst_name) ==
    LET s1 == IF mode \in {"BCH_RENAME", "BCH_RENAME_OVERWRITE"}
              THEN [sd EXCEPT !.bi_size = @ - dirent_occupied_size(src_name)]
              ELSE sd
        d0 == IF same THEN s1 ELSE d
        d1 == IF mode = "BCH_RENAME"
              THEN [d0 EXCEPT !.bi_size = @ + dirent_occupied_size(dst_name)]
              ELSE d0
    IN  [src |-> IF same THEN d1 ELSE s1, dst |-> d1]

RenameNlinksSrcOnly(mode, sd, d, same, src_inode_u, dst_inum, dst_inode_u) ==
    LET mv == BoolInt(is_subdir_for_nlink(src_inode_u))
    IN  IF same THEN [src |-> sd, dst |-> sd]
        ELSE [src |-> [sd EXCEPT !.bi_nlink = @ - mv],
              dst |-> [d EXCEPT !.bi_nlink = @ + mv]]

\* the bi_nlink updates of the two directories
RenameNlinks(mode, sd, d, same, src_inode_u, dst_inum, dst_inode_u) ==
    LET mv == BoolInt(is_subdir_for_nlink(src_inode_u))
        ov == BoolInt(dst_inum[2] # 0 /\ is_subdir_for_nlink(dst_inode_u))
        ex == BoolInt(mode = "BCH_RENAME_EXCHANGE")
    IN  IF same
        THEN LET r == [sd EXCEPT !.bi_nlink = @ - mv + mv - ov + ov * ex]
             IN  [src |-> r, dst |-> r]
        ELSE [src |-> [sd EXCEPT !.bi_nlink = @ - mv + ov * ex],
              dst |-> [d EXCEPT !.bi_nlink = @ + mv - ov]]

RenameBackpointersSrcOnly(mode, src_dir, dst_dir, src_inode_u, dst_inode_u, src_offset, dst_offset) ==
    [src |-> [src_inode_u EXCEPT !.bi_dir = dst_dir[2],
                                 !.bi_dir_offset = dst_offset],
     dst |-> dst_inode_u]

\* the back-pointer updates of the two inodes
RenameBackpointers(mode, src_dir, dst_dir, src_inode_u, dst_inode_u, src_offset, dst_offset) ==
    LET s1 == [src_inode_u EXCEPT !.bi_dir = dst_dir[2],
                                  !.bi_dir_offset = dst_offset]
        d1 == IF mode = "BCH_RENAME_EXCHANGE"
              THEN [dst_inode_u EXCEPT !.bi_dir = src_dir[2],
                                       !.bi_dir_offset = src_offset]
              ELSE dst_inode_u
        d2 == IF /\ mode = "BCH_RENAME_OVERWRITE"
                 /\ d1.bi_dir = dst_dir[2]
                 /\ d1.bi_dir_offset = src_offset
              THEN [d1 EXCEPT !.bi_dir = 0, !.bi_dir_offset = 0]
              ELSE d1
    IN  [src |-> s1, dst |-> d2]

\* bch2_rename_trans after bch2_dirent_rename returned dr: fs-common.c
\* lines 428 to 565
RenameInodes(f, dr, src_dir, dst_dir, src_name, dst_name, mode, rs, rd, now) ==
    LET same == src_dir = dst_dir
    IN      IF dr.ret # BCH_ERR_ok THEN dr
            ELSE IF dr.src_inum \notin DOMAIN f.inodes
                    \/ (dr.dst_inum[2] # 0 /\ dr.dst_inum \notin DOMAIN f.inodes)
            THEN [dr EXCEPT !.ret = "ENOENT"]
            ELSE
            LET src0 == f.inodes[dr.src_inum]
                has_dst == dr.dst_inum[2] # 0
                dst0 == IF has_dst THEN f.inodes[dr.dst_inum] ELSE src0
                f1 == IF src0.bi_subvol # 0 /\ dst_dir[1] # src0.bi_parent_subvol
                      THEN subvol_update_parent(dr.fs, src0.bi_subvol, dst_dir[1])
                      ELSE dr.fs
                f2 == IF /\ mode = "BCH_RENAME_EXCHANGE"
                         /\ dst0.bi_subvol # 0
                         /\ src_dir[1] # dst0.bi_parent_subvol
                      THEN subvol_update_parent(f1, dst0.bi_subvol, src_dir[1])
                      ELSE f1
                sz == RenameSizes(mode, f.inodes[src_dir], f.inodes[dst_dir],
                                  same, src_name, dst_name)
                src1 == IF src0.bi_parent_subvol # 0
                        THEN [src0 EXCEPT !.bi_parent_subvol = dst_dir[1]]
                        ELSE src0
                dst1 == IF mode = "BCH_RENAME_EXCHANGE" /\ dst0.bi_parent_subvol # 0
                        THEN [dst0 EXCEPT !.bi_parent_subvol = src_dir[1]]
                        ELSE dst0
                bp == RenameBackpointers(mode, src_dir, dst_dir, src1, dst1,
                                         dr.src_offset, dr.dst_offset)
                nl == RenameNlinks(mode, sz.src, sz.dst, same, bp.src,
                                   dr.dst_inum, bp.dst)
                src2 == IF bp.src.dir /\ bp.src.bi_subvol = 0
                        THEN [bp.src EXCEPT !.bi_depth = sz.dst.bi_depth + 1]
                        ELSE bp.src
                dst2 == IF /\ mode = "BCH_RENAME_EXCHANGE"
                           /\ bp.dst.dir /\ bp.dst.bi_subvol = 0
                        THEN [bp.dst EXCEPT !.bi_depth = sz.src.bi_depth + 1]
                        ELSE bp.dst
                dst3 == IF mode = "BCH_RENAME_OVERWRITE"
                        THEN bch2_inode_nlink_dec(dst2) ELSE dst2
                sd1 == [nl.src EXCEPT !.bi_mtime = now, !.bi_ctime = now]
                dd0 == IF same THEN sd1 ELSE nl.dst
                dd1 == IF src_dir[2] # dst_dir[2]
                       THEN [dd0 EXCEPT !.bi_mtime = now, !.bi_ctime = now]
                       ELSE dd0
                src3 == [src2 EXCEPT !.bi_ctime = now]
                dst4 == [dst3 EXCEPT !.bi_ctime = now]
                w1 == Put(f2.inodes, src_dir, IF same THEN dd1 ELSE sd1)
                w2 == IF src_dir[2] # dst_dir[2] THEN Put(w1, dst_dir, dd1) ELSE w1
                w3 == Put(w2, dr.src_inum, src3)
                w4 == IF has_dst THEN Put(w3, dr.dst_inum, dst4) ELSE w3
            IN  IF RenameCrossesSubvol(src_dir, dst_dir, src0, dr.dst_inum, dst0)
                THEN [dr EXCEPT !.ret = "EXDEV", !.fs = f2]
                ELSE IF mode = "BCH_RENAME_OVERWRITE" /\ src0.dir # dst0.dir
                THEN [dr EXCEPT !.ret = "ENOTDIR", !.fs = f2]
                ELSE IF /\ mode = "BCH_RENAME_OVERWRITE" /\ dst0.dir
                        /\ ~EmptyDir(f, dr.dst_inum)
                THEN [dr EXCEPT !.ret = "ENOTEMPTY", !.fs = f2]
                ELSE IF rs /\ src0.dir
                THEN [dr EXCEPT !.ret = "EXDEV", !.fs = f2]
                ELSE IF mode = "BCH_RENAME_EXCHANGE" /\ rd /\ dst0.dir
                THEN [dr EXCEPT !.ret = "EXDEV", !.fs = f2]
                ELSE [dr EXCEPT !.fs = [f2 EXCEPT !.inodes = w4]]

\* bch2_rename_trans(trans, src_dir, src_dir_u, dst_dir, dst_dir_u,
\* src_inode_u, dst_inode_u, src_name, dst_name, mode); rs and rd are what
\* bch2_reinherit_attrs returns for the source and the destination inode
bch2_rename_trans(f, src_dir, dst_dir, src_name, dst_name, mode, rs, rd, now) ==
    IF src_dir \notin DOMAIN f.inodes \/ dst_dir \notin DOMAIN f.inodes
    THEN [ret |-> "ENOENT", fs |-> f, src_inum |-> NoInum,
          dst_inum |-> NoInum, src_offset |-> 0, dst_offset |-> 0]
    ELSE CHOOSE r \in
            {RenameInodes(f, dr, src_dir, dst_dir, src_name, dst_name, mode,
                          rs, rd, now) :
                dr \in {bch2_dirent_rename(f, src_dir, dst_dir, src_name,
                                           dst_name, mode)}} : TRUE

(***************************************************************************)
(* SpecNs: the namespace operations of fs.c, each a transaction that is    *)
(* committed when its function returned 0 and dropped otherwise.  The      *)
(* arguments are those the VFS can pass: existing directories and          *)
(* entries, a free name for a new entry, no directory moved below itself.  *)
(***************************************************************************)
\* namespace operations in one behaviour
MaxNsOps == 2

\* the depth of the directory tree the walk to the root is cut at
MaxDepth == 4

RootInode ==
    [NewInode(TRUE, 0, 0) EXCEPT !.bi_subvol = BCACHEFS_ROOT_SUBVOL]

\* a new filesystem: the root subvolume and its root directory
FsRoot ==
    [inodes  |-> Put(<< >>, <<BCACHEFS_ROOT_SUBVOL, BCACHEFS_ROOT_INO>>, RootInode),
     dirents |-> << >>,
     subvols |-> Put(<< >>, BCACHEFS_ROOT_SUBVOL,
                     [inode |-> BCACHEFS_ROOT_INO, fs_path_parent |-> 0,
                      unlinked |-> FALSE, snapshot |-> 1])]

RootDir == <<BCACHEFS_ROOT_SUBVOL, BCACHEFS_ROOT_INO>>

\* /a a directory, /a/bb a file, /bb a second link to it
FsTree ==
    CHOOSE r \in
        {bch2_link_trans(c2, RootDir, <<1, 3>>, "bb", FALSE, 0).fs :
            c2 \in {bch2_create_trans(c1, <<1, 2>>, "bb", "reg", 0).fs :
                c1 \in {bch2_create_trans(FsRoot, RootDir, "a", "dir", 0).fs}}} :
        TRUE

\* /a a subvolume, /bb a snapshot of the root subvolume
FsSubvols ==
    CHOOSE r \in
        {bch2_create_trans(c1, RootDir, "bb", "snapshot", 0).fs :
            c1 \in {bch2_create_trans(FsRoot, RootDir, "a", "subvol", 0).fs}} :
        TRUE

\* bch2_current_time: the clock moves with every operation
Now == last.n + 1

LiveDir(k) ==
    /\ k \in DOMAIN fs.inodes
    /\ fs.inodes[k].dir /\ ~fs.inodes[k].unlinked
    /\ fs.inodes[k].bi_subvol # 0 => ~fs.subvols[fs.inodes[k].bi_subvol].unlinked

\* the directory an inode's back-pointer names
ParentDir(f, k) ==
    <<IF f.inodes[k].bi_parent_subvol # 0 THEN f.inodes[k].bi_parent_subvol
      ELSE k[1],
      f.inodes[k].bi_dir>>

RECURSIVE IsAncestorOrSelf(_, _, _, _)
IsAncestorOrSelf(f, a, k, fuel) ==
    \/ a = k
    \/ /\ fuel > 0
       /\ k \in DOMAIN f.inodes
       /\ f.inodes[k].bi_dir # 0
       /\ IsAncestorOrSelf(f, a, ParentDir(f, k), fuel - 1)

Commit(r) == IF r.ret = BCH_ERR_ok THEN r.fs ELSE fs

\* an inode's back-pointer (bi_dir, bi_dir_offset)
Backpointer(f, k) ==
    IF k \in DOMAIN f.inodes
    THEN <<f.inodes[k].bi_dir, f.inodes[k].bi_dir_offset>>
    ELSE <<0, 0>>

\* an inode's link count as stored: bi_nlink and the unlinked flag
InodeLinks(f, k) ==
    IF k \in DOMAIN f.inodes
    THEN <<f.inodes[k].bi_nlink, f.inodes[k].unlinked>>
    ELSE <<0, TRUE>>

\* __bch2_create, and bch2_tmpfile, bch2_mkdir and the subvolume ioctls
\* through it
NsCreate(dir, name, kind) ==
    /\ last.n < MaxNsOps
    /\ LiveDir(dir)
    /\ DirentKey(dir, name) \notin DOMAIN fs.dirents
    /\ \E r \in {bch2_create_trans(fs, dir, name, kind, Now)} :
           /\ fs' = Commit(r)
           /\ last' = [op |-> "create", ret |-> r.ret, n |-> last.n + 1,
                       dir |-> dir, name |-> name, kind |-> kind,
                       staged |-> r.fs]
    /\ UNCHANGED <<core_read_vars, vfs>>

\* __bch2_link; the VFS links no directory and no inode without links
\* unless it is a tmpfile
NsLink(dir, inum, name, reinherit) ==
    /\ last.n < MaxNsOps
    /\ LiveDir(dir)
    /\ inum \in DOMAIN fs.inodes
    /\ ~fs.inodes[inum].dir
    /\ fs.inodes[inum].unlinked => fs.inodes[inum].bi_mtime = fs.inodes[inum].bi_ctime
    /\ DirentKey(dir, name) \notin DOMAIN fs.dirents
    /\ \E r \in {bch2_link_trans(fs, dir, inum, name, reinherit, Now)} :
           /\ fs' = Commit(r)
           /\ last' = [op |-> "link", ret |-> r.ret, n |-> last.n + 1,
                       dir |-> dir, name |-> name, inum |-> inum,
                       staged |-> r.fs]
    /\ UNCHANGED <<core_read_vars, vfs>>

\* __bch2_unlink
NsUnlink(dir, name, deleting_subvol) ==
    /\ last.n < MaxNsOps
    /\ LiveDir(dir)
    /\ DirentKey(dir, name) \in DOMAIN fs.dirents
    /\ \E r \in {bch2_unlink_trans(fs, dir, name, deleting_subvol, Now)} :
           /\ fs' = Commit(r)
           /\ last' = [op |-> "unlink", ret |-> r.ret, n |-> last.n + 1,
                       dir |-> dir, name |-> name,
                       deleting_subvol |-> deleting_subvol,
                       inum |-> DirentTarget(fs, dir, fs.dirents[DirentKey(dir, name)]),
                       bp |-> Backpointer(fs, DirentTarget(fs, dir, fs.dirents[DirentKey(dir, name)])),
                       nlink |-> InodeLinks(fs, DirentTarget(fs, dir, fs.dirents[DirentKey(dir, name)])),
                       key_snapshot |-> fs.dirents[DirentKey(dir, name)].snapshot,
                       del_snapshot |-> r.del_snapshot,
                       staged |-> r.fs]
    /\ UNCHANGED <<core_read_vars, vfs>>

\* the mode bch2_rename2 derives from its flags and the destination dentry
RenameMode(dst_dir, dst_name, exchange) ==
    IF exchange THEN "BCH_RENAME_EXCHANGE"
    ELSE IF DirentKey(dst_dir, dst_name) \in DOMAIN fs.dirents
    THEN "BCH_RENAME_OVERWRITE"
    ELSE "BCH_RENAME"

\* the renames the VFS passes to bch2_rename2: both directories live, the
\* source entry there, an exchange only with an entry, source and
\* destination two entries of two inodes, no directory moved below itself
RenameCallable(src_dir, src_name, dst_dir, dst_name, exchange, rs, rd) ==
    LET skey == DirentKey(src_dir, src_name)
        dkey == DirentKey(dst_dir, dst_name)
    IN  /\ LiveDir(src_dir) /\ LiveDir(dst_dir)
        /\ skey \in DOMAIN fs.dirents
        /\ exchange => dkey \in DOMAIN fs.dirents
        /\ skey # dkey
        /\ LET src_inum == DirentTarget(fs, src_dir, fs.dirents[skey])
               has_dst == dkey \in DOMAIN fs.dirents
               dst_inum == IF has_dst
                           THEN DirentTarget(fs, dst_dir, fs.dirents[dkey])
                           ELSE NoInum
           IN  /\ src_inum # dst_inum
               /\ src_inum \in DOMAIN fs.inodes
               /\ has_dst => dst_inum \in DOMAIN fs.inodes
               /\ ~IsAncestorOrSelf(fs, src_inum, dst_dir, MaxDepth)
               /\ has_dst => ~IsAncestorOrSelf(fs, dst_inum, src_dir, MaxDepth)
               /\ rs => fs.inodes[src_inum].dir
               /\ rd => (exchange /\ fs.inodes[dst_inum].dir)

\* bch2_rename2, its transaction committed or dropped
NsRename(src_dir, src_name, dst_dir, dst_name, exchange, rs, rd) ==
    LET dkey == DirentKey(dst_dir, dst_name)
        mode == RenameMode(dst_dir, dst_name, exchange)
    IN  /\ last.n < MaxNsOps
        /\ RenameCallable(src_dir, src_name, dst_dir, dst_name, exchange, rs, rd)
        /\ \E r \in {bch2_rename_trans(fs, src_dir, dst_dir, src_name, dst_name,
                                       mode, rs, rd, Now)} :
               /\ fs' = Commit(r)
               /\ last' = [op |-> "rename", ret |-> r.ret, n |-> last.n + 1,
                           mode |-> mode, src_dir |-> src_dir, dst_dir |-> dst_dir,
                           src_name |-> src_name, dst_name |-> dst_name,
                           src_inum |-> r.src_inum, dst_inum |-> r.dst_inum,
                           src_offset |-> r.src_offset,
                           dst_offset |-> r.dst_offset,
                           rs |-> rs, rd |-> rd,
                           src_size |-> fs.inodes[src_dir].bi_size,
                           dst_size |-> fs.inodes[dst_dir].bi_size,
                           dst_bp |-> IF dkey \in DOMAIN fs.dirents
                                      THEN Backpointer(fs, DirentTarget(fs, dst_dir, fs.dirents[dkey]))
                                      ELSE <<0, 0>>,
                           staged |-> r.fs]
    /\ UNCHANGED <<core_read_vars, vfs>>

InitNs ==
    /\ InitState([threads |-> {1}, updates |-> {}, reads |-> {},
                  maxops |-> 0, fails |-> {"none"}])
    /\ arg = [t \in {1} |-> NoArg]
    /\ may_go_rw = TRUE
    /\ ReadIdle
    /\ fs \in {FsRoot, FsTree, FsSubvols}
    /\ last = NoLast
    /\ vfs = VfsIdle

Dirs == DOMAIN fs.inodes

NextNs ==
    \/ \E dir \in Dirs, name \in Names,
          kind \in {"reg", "dir", "tmpfile", "subvol", "snapshot"} :
            NsCreate(dir, name, kind)
    \/ \E dir \in Dirs, inum \in DOMAIN fs.inodes, name \in Names,
          reinherit \in BOOLEAN : NsLink(dir, inum, name, reinherit)
    \/ \E dir \in Dirs, name \in Names, deleting_subvol \in BOOLEAN :
            NsUnlink(dir, name, deleting_subvol)
    \/ \E src_dir \in Dirs, dst_dir \in Dirs, src_name \in Names,
          dst_name \in Names, exchange \in BOOLEAN, rs \in BOOLEAN,
          rd \in BOOLEAN :
            NsRename(src_dir, src_name, dst_dir, dst_name, exchange, rs, rd)

SpecNs == InitNs /\ [][NextNs]_vars

NsTypeOK ==
    /\ \A k \in DOMAIN fs.inodes : fs.inodes[k].bi_nlink >= 0
    /\ last.ret \in {"ok", "EXDEV", "ENOENT", "ENOTEMPTY", "ENOTDIR",
                     "ENOENT_not_subvol"}

(***************************************************************************)
(* C15: a link whose directory and inode are in different subvolumes       *)
(* returns EXDEV; the transaction has staged nothing and the filesystem    *)
(* is as it was.                                                           *)
(***************************************************************************)
C15_LinkExdevStep ==
    (last'.op = "link" /\ last'.n = last.n + 1
        /\ last'.dir[1] # last'.inum[1])
    => /\ last'.ret = "EXDEV"
       /\ last'.staged = fs
       /\ fs' = fs

\* C15: every link across subvolumes returns EXDEV, stages nothing and
\* changes nothing
C15_LinkAcrossSubvols == [][C15_LinkExdevStep]_vars

\* a file of the root subvolume was refused a name in the snapshot
C15_Witness ==
    /\ last.op = "link" /\ last.ret = "EXDEV"
    /\ last.dir[1] # last.inum[1]
    /\ last.inum \in DOMAIN fs.inodes
    /\ last.dir \in DOMAIN fs.inodes

(***************************************************************************)
(* C16: after every committed create, unlink and rename, the stored        *)
(* bi_nlink of every directory is the number of its entries that are       *)
(* directories and not subvolume roots.                                    *)
(***************************************************************************)
SubdirEntries(f, k) ==
    {d \in DOMAIN f.dirents :
        /\ d[1] = k[1] /\ d[2] = k[2]
        /\ DirentTarget(f, k, f.dirents[d]) \in DOMAIN f.inodes
        /\ is_subdir_for_nlink(f.inodes[DirentTarget(f, k, f.dirents[d])])}

C16_WitnessExchange ==
    /\ last.op = "rename" /\ last.ret = BCH_ERR_ok
    /\ last.mode = "BCH_RENAME_EXCHANGE"
    /\ last.src_dir # last.dst_dir
    /\ is_subdir_for_nlink(fs.inodes[last.src_inum])
       # is_subdir_for_nlink(fs.inodes[last.dst_inum])

(***************************************************************************)
(* C17: after every committed namespace transaction, every inode that is   *)
(* not a tmpfile and whose bi_dir is not zero has a dirent at              *)
(* (bi_dir, bi_dir_offset), in the subvolume of its parent directory,      *)
(* that resolves to it.                                                    *)
(***************************************************************************)
BackpointerKey(f, k) ==
    <<ParentDir(f, k)[1], f.inodes[k].bi_dir, f.inodes[k].bi_dir_offset>>

BackpointerResolves(f, k) ==
    /\ BackpointerKey(f, k) \in DOMAIN f.dirents
    /\ DirentTarget(f, ParentDir(f, k), f.dirents[BackpointerKey(f, k)]) = k

\* C17: the dirent a linked inode's back-pointer names resolves to the inode
C17_Backpointers ==
    \A k \in DOMAIN fs.inodes :
        (fs.inodes[k].bi_dir # 0 /\ ~fs.inodes[k].unlinked)
            => BackpointerResolves(fs, k)

\* a rename replaced an entry of a file that has another name, and the
\* replaced file is still linked
C17_Witness ==
    /\ last.op = "rename" /\ last.ret = BCH_ERR_ok
    /\ last.mode = "BCH_RENAME_OVERWRITE"
    /\ ~fs.inodes[last.dst_inum].unlinked
    /\ fs.inodes[last.dst_inum].bi_dir = 0
    /\ BackpointerResolves(fs, last.src_inum)

(***************************************************************************)
(* C18: a successful rename changes the sizes of the directories by the    *)
(* occupied sizes of the names: in mode BCH_RENAME the source directory    *)
(* loses the source name and the destination directory gains the           *)
(* destination name, in mode BCH_RENAME_OVERWRITE only the source          *)
(* directory loses the source name, in mode BCH_RENAME_EXCHANGE neither    *)
(* changes; with one directory or with two.                                *)
(***************************************************************************)
SrcSizeDelta(mode, src_name) ==
    IF mode = "BCH_RENAME_EXCHANGE" THEN 0 ELSE 0 - dirent_occupied_size(src_name)

DstSizeDelta(mode, dst_name) ==
    IF mode = "BCH_RENAME" THEN dirent_occupied_size(dst_name) ELSE 0

RenameCommitted == last.op = "rename" /\ last.ret = BCH_ERR_ok

\* C18: the sizes of the source and the destination directory after a
\* committed rename, by mode
C18_AsStated ==
    RenameCommitted =>
        IF last.src_dir = last.dst_dir
        THEN fs.inodes[last.src_dir].bi_size =
                last.src_size + SrcSizeDelta(last.mode, last.src_name)
                              + DstSizeDelta(last.mode, last.dst_name)
        ELSE /\ fs.inodes[last.src_dir].bi_size =
                    last.src_size + SrcSizeDelta(last.mode, last.src_name)
             /\ fs.inodes[last.dst_dir].bi_size =
                    last.dst_size + DstSizeDelta(last.mode, last.dst_name)

\* a subvolume was moved from a directory into the directory of the same
\* inode number in a snapshot, and the destination's size is what it was
C18_DstSizeLost ==
    /\ RenameCommitted
    /\ last.mode = "BCH_RENAME"
    /\ last.src_dir # last.dst_dir
    /\ last.src_dir[2] = last.dst_dir[2]
    /\ DirentKey(last.dst_dir, last.dst_name) \in DOMAIN fs.dirents
    /\ fs.inodes[last.dst_dir].bi_size = last.dst_size

\* the sizes are as stated whenever the directories differ in their inode
\* number or are one directory
C18_SizesUnlessSameInum ==
    (RenameCommitted
        /\ (last.src_dir = last.dst_dir \/ last.src_dir[2] # last.dst_dir[2]))
    => C18_AsStated

(***************************************************************************)
(* C19: after a successful rename the source inode's back-pointer is the   *)
(* position of the new destination dirent; in mode BCH_RENAME_EXCHANGE     *)
(* the destination inode's back-pointer is the position of the new source  *)
(* dirent; in mode BCH_RENAME_OVERWRITE the destination inode's            *)
(* back-pointer is cleared when it pointed at the replaced destination     *)
(* dirent and is unchanged otherwise.                                      *)
(***************************************************************************)
SrcPosition == <<last.src_dir[2], NameOffset(last.src_name)>>
DstPosition == <<last.dst_dir[2], NameOffset(last.dst_name)>>

RenameSrcAndExchange ==
    /\ Backpointer(fs, last.src_inum) = DstPosition
    /\ DirentTarget(fs, last.dst_dir,
                    fs.dirents[DirentKey(last.dst_dir, last.dst_name)])
            = last.src_inum
    /\ last.mode = "BCH_RENAME_EXCHANGE" =>
        /\ Backpointer(fs, last.dst_inum) = SrcPosition
        /\ DirentTarget(fs, last.src_dir,
                        fs.dirents[DirentKey(last.src_dir, last.src_name)])
                = last.dst_inum

\* C19: the back-pointers after a committed rename; a replaced inode's is
\* cleared when it named the replaced dirent
C19_RenameBackpointers ==
    RenameCommitted =>
        /\ RenameSrcAndExchange
        /\ last.mode = "BCH_RENAME_OVERWRITE" =>
            Backpointer(fs, last.dst_inum) =
                IF last.dst_bp = DstPosition THEN <<0, 0>> ELSE last.dst_bp

\* C19 as stated: the destination's back-pointer is cleared when it pointed
\* at the source dirent's position
C19_AsStated ==
    RenameCommitted =>
        /\ RenameSrcAndExchange
        /\ last.mode = "BCH_RENAME_OVERWRITE" =>
            Backpointer(fs, last.dst_inum) =
                IF last.dst_bp = SrcPosition THEN <<0, 0>> ELSE last.dst_bp

\* an entry was replaced whose inode pointed back at it, not at the source
\* dirent, and the back-pointer is cleared
C19_Witness ==
    /\ RenameCommitted
    /\ last.mode = "BCH_RENAME_OVERWRITE"
    /\ last.dst_bp = DstPosition /\ last.dst_bp # SrcPosition
    /\ Backpointer(fs, last.dst_inum) = <<0, 0>>
    /\ Backpointer(fs, last.src_inum) = DstPosition

\* an entry of a file with another name was replaced and the file's
\* back-pointer, at the other name, is unchanged
C19_WitnessUnchanged ==
    /\ RenameCommitted
    /\ last.mode = "BCH_RENAME_OVERWRITE"
    /\ last.dst_bp # DstPosition /\ last.dst_bp # <<0, 0>>
    /\ Backpointer(fs, last.dst_inum) = last.dst_bp

(***************************************************************************)
(* C20: a rename between directories of different subvolumes returns       *)
(* EXDEV unless the source entry is a subvolume root and the destination   *)
(* entry, when there is one (modes BCH_RENAME_OVERWRITE and                *)
(* BCH_RENAME_EXCHANGE), is a subvolume root too; otherwise this rule      *)
(* does not reject it; a rejected rename commits nothing, the subvolume    *)
(* parent update staged before the check included.                         *)
(***************************************************************************)
CrossSubvolRename ==
    /\ last.op = "rename"
    /\ last.src_dir[1] # last.dst_dir[1]
    /\ last.src_inum # NoInum

SrcIsSubvolRoot == fs.inodes[last.src_inum].bi_subvol # 0

DstIsSubvolRoot ==
    last.dst_inum # NoInum /\ fs.inodes[last.dst_inum].bi_subvol # 0

NoReinherit == ~last.rs /\ ~last.rd

C20_State ==
    CrossSubvolRename =>
        LET allowed == SrcIsSubvolRoot
                       /\ (last.dst_inum # NoInum => DstIsSubvolRoot)
        IN  /\ ~allowed => last.ret = "EXDEV"
            /\ (allowed /\ NoReinherit) => last.ret # "EXDEV"

C20_Step ==
    (last'.op = "rename" /\ last'.n = last.n + 1 /\ last'.ret # BCH_ERR_ok)
        => fs' = fs

\* C20: the rule's verdict in every state after a rename across
\* subvolumes, and no rejected rename changes the filesystem
C20_CrossSubvolRename == [](C20_State) /\ [][C20_Step]_vars

\* C20 as stated: only an exchange looks at the destination entry
C20_AsStated ==
    CrossSubvolRename =>
        LET allowed == SrcIsSubvolRoot
                       /\ (last.mode = "BCH_RENAME_EXCHANGE" => DstIsSubvolRoot)
        IN  /\ ~allowed => last.ret = "EXDEV"
            /\ (allowed /\ NoReinherit) => last.ret # "EXDEV"

\* a subvolume root was to replace an entry of another subvolume that is
\* no subvolume root: EXDEV, and the staged parent update is dropped
C20_Witness ==
    /\ CrossSubvolRename
    /\ last.mode = "BCH_RENAME_OVERWRITE"
    /\ SrcIsSubvolRoot /\ ~DstIsSubvolRoot /\ NoReinherit
    /\ last.ret = "EXDEV"
    /\ last.staged.subvols # fs.subvols

\* a subvolume root was moved into another subvolume
C20_WitnessMoved ==
    /\ CrossSubvolRename
    /\ last.ret = BCH_ERR_ok
    /\ SrcIsSubvolRoot
    /\ fs.subvols[fs.inodes[last.src_inum].bi_subvol].fs_path_parent
            = last.dst_dir[1]

(***************************************************************************)
(* C21: after a committed rename that moved a subvolume root into a        *)
(* directory of subvolume S, the root inode's bi_parent_subvol and the     *)
(* subvolume's fs_path_parent are S; after an exchange of two subvolume    *)
(* roots the parent pointers of both are swapped, their back-pointers are  *)
(* swapped and the sizes of both directories are what they were.           *)
(***************************************************************************)
ParentSubvolIs(k, s) ==
    /\ fs.inodes[k].bi_parent_subvol = s
    /\ fs.subvols[fs.inodes[k].bi_subvol].fs_path_parent = s

\* C21: the parent pointers, back-pointers and sizes after a rename of
\* subvolume roots
C21_SubvolParents ==
    RenameCommitted =>
        /\ SrcIsSubvolRoot => ParentSubvolIs(last.src_inum, last.dst_dir[1])
        /\ (last.mode = "BCH_RENAME_EXCHANGE" /\ SrcIsSubvolRoot /\ DstIsSubvolRoot)
            => /\ ParentSubvolIs(last.dst_inum, last.src_dir[1])
               /\ Backpointer(fs, last.src_inum) = DstPosition
               /\ Backpointer(fs, last.dst_inum) = SrcPosition
               /\ last.dst_bp = DstPosition
               /\ fs.inodes[last.src_dir].bi_size = last.src_size
               /\ fs.inodes[last.dst_dir].bi_size = last.dst_size

\* two subvolume roots in directories of two subvolumes were exchanged
C21_Witness ==
    /\ RenameCommitted
    /\ last.mode = "BCH_RENAME_EXCHANGE"
    /\ SrcIsSubvolRoot /\ DstIsSubvolRoot
    /\ last.src_dir[1] # last.dst_dir[1]
    /\ ParentSubvolIs(last.src_inum, last.dst_dir[1])
    /\ ParentSubvolIs(last.dst_inum, last.src_dir[1])

(***************************************************************************)
(* SpecTx: bch2_rename2 step by step.  The updates of bch2_rename_trans    *)
(* and of the whiteout's bch2_create_trans are staged in the transaction   *)
(* (last.staged, the btrees as they would be); bch2_trans_begin drops      *)
(* them; bch2_trans_commit stores them in one step; the machine may stop   *)
(* at any step.  last.pre is the filesystem when the call began.           *)
(***************************************************************************)
\* renames in one behaviour
MaxRenames == 2
\* restarts one rename may see
MaxTxTries == 2

TransCommitDirentsOnly(stored, staged) ==
    [stored EXCEPT !.dirents = staged.dirents]

\* bch2_trans_commit(trans, NULL, NULL, 0) = 0: every staged update is
\* stored
TransCommitNs(stored, staged) == staged

\* the transaction of one attempt, whiteout included, on the filesystem f
RenameAttempt(f, l, now) ==
    CHOOSE x \in
        {IF r.ret = BCH_ERR_ok /\ l.whiteout
         THEN bch2_create_trans(r.fs, l.src_dir, l.src_name, "reg", now)
         ELSE [ret |-> r.ret, fs |-> r.fs] :
            r \in {bch2_rename_trans(f, l.src_dir, l.dst_dir, l.src_name,
                                     l.dst_name, l.mode, l.rs, l.rd, now)}} :
        TRUE

\* bch2_rename2 is called: bch2_lock_inodes, bch2_trans_get
TxCall(src_dir, src_name, dst_dir, dst_name, exchange, rs, rd, whiteout) ==
    /\ vfs.pc \in {"idle", "done"}
    /\ vfs.calls < MaxRenames
    /\ RenameCallable(src_dir, src_name, dst_dir, dst_name, exchange, rs, rd)
    /\ whiteout => ~exchange
    /\ vfs' = [fn |-> "bch2_rename2", pc |-> "is_ro", ret |-> BCH_ERR_ok,
               tries |-> 0, calls |-> vfs.calls + 1]
    /\ last' = [op |-> "rename2", ret |-> BCH_ERR_ok, n |-> last.n + 1,
                mode |-> RenameMode(dst_dir, dst_name, exchange),
                src_dir |-> src_dir, dst_dir |-> dst_dir,
                src_name |-> src_name, dst_name |-> dst_name,
                rs |-> rs, rd |-> rd, whiteout |-> whiteout,
                now |-> last.n * (MaxTxTries + 1), pre |-> fs, staged |-> fs]
    /\ UNCHANGED <<core_read_vars, fs>>

\* retry: bch2_trans_begin; bch2_rename_trans; its error, or a restart at
\* any of its lookups, goes to err_tx_restart
TxRenameTrans(restart) ==
    /\ vfs.fn = "bch2_rename2" /\ vfs.pc = "retry" /\ last.op = "rename2"
    /\ restart => vfs.tries < MaxTxTries
    /\ \E r \in {bch2_rename_trans(fs, last.src_dir, last.dst_dir,
                                   last.src_name, last.dst_name, last.mode,
                                   last.rs, last.rd, last.now + 1)} :
        IF restart
        THEN /\ vfs' = [vfs EXCEPT !.tries = @ + 1]
             /\ last' = [last EXCEPT !.now = @ + 1, !.staged = fs]
        ELSE IF r.ret # BCH_ERR_ok
        THEN /\ vfs' = VfsReturn(r.ret)
             /\ last' = [last EXCEPT !.now = @ + 1, !.staged = fs, !.ret = r.ret]
        ELSE /\ vfs' = [vfs EXCEPT !.pc = IF last.whiteout THEN "whiteout"
                                          ELSE "commit"]
             /\ last' = [last EXCEPT !.now = @ + 1, !.staged = r.fs]
    /\ UNCHANGED <<core_read_vars, fs>>

\* if (whiteout): bch2_trans_kmalloc_nomemzero, bch2_create_trans of the
\* whiteout inode under the source name, bch2_quota_acct
TxWhiteout(out) ==
    /\ vfs.fn = "bch2_rename2" /\ vfs.pc = "whiteout" /\ last.op = "rename2"
    /\ out = BCH_ERR_transaction_restart => vfs.tries < MaxTxTries
    /\ \E r \in {bch2_create_trans(last.staged, last.src_dir, last.src_name,
                                   "reg", last.now)} :
        IF out = BCH_ERR_transaction_restart
        THEN /\ vfs' = [vfs EXCEPT !.pc = "retry", !.tries = @ + 1]
             /\ last' = [last EXCEPT !.staged = fs]
        ELSE IF out # BCH_ERR_ok \/ r.ret # BCH_ERR_ok
        THEN /\ vfs' = VfsReturn(IF out # BCH_ERR_ok THEN out ELSE r.ret)
             /\ last' = [last EXCEPT !.staged = fs,
                                     !.ret = IF out # BCH_ERR_ok THEN out ELSE r.ret]
        ELSE /\ vfs' = [vfs EXCEPT !.pc = "commit"]
             /\ last' = [last EXCEPT !.staged = r.fs]
    /\ UNCHANGED <<core_read_vars, fs>>

\* ret = bch2_trans_commit(trans, NULL, NULL, 0); a restart goes to retry,
\* another error to err; after the commit the cached inodes are updated
TxCommit(out) ==
    /\ vfs.fn = "bch2_rename2" /\ vfs.pc = "commit" /\ last.op = "rename2"
    /\ out = BCH_ERR_transaction_restart => vfs.tries < MaxTxTries
    /\ IF out = BCH_ERR_ok
       THEN /\ fs' = TransCommitNs(fs, last.staged)
            /\ vfs' = VfsReturn(BCH_ERR_ok)
            /\ last' = last
       ELSE IF out = BCH_ERR_transaction_restart
       THEN /\ vfs' = [vfs EXCEPT !.pc = "retry", !.tries = @ + 1]
            /\ last' = [last EXCEPT !.staged = fs]
            /\ fs' = fs
       ELSE /\ vfs' = VfsReturn(out)
            /\ last' = [last EXCEPT !.staged = fs, !.ret = out]
            /\ fs' = fs
    /\ UNCHANGED core_read_vars

\* the machine stops inside bch2_rename2; what is staged in memory is lost
TxCrash ==
    /\ vfs.fn = "bch2_rename2" /\ vfs.pc \in {"is_ro", "retry", "whiteout", "commit"}
    /\ vfs' = [vfs EXCEPT !.pc = "crashed"]
    /\ UNCHANGED <<core_read_vars, fs, last>>

InitTx ==
    /\ InitState([threads |-> {1}, updates |-> {}, reads |-> {},
                  maxops |-> 0, fails |-> {"none"}])
    /\ arg = [t \in {1} |-> NoArg]
    /\ may_go_rw = TRUE
    /\ ReadIdle
    /\ fs \in {FsTree, FsSubvols}
    /\ last = NoLast
    /\ vfs = VfsIdle

NextTx ==
    \/ \E src_dir \in Dirs, dst_dir \in Dirs, src_name \in Names,
          dst_name \in Names, exchange \in BOOLEAN, rs \in BOOLEAN,
          rd \in BOOLEAN, whiteout \in BOOLEAN :
            TxCall(src_dir, src_name, dst_dir, dst_name, exchange, rs, rd,
                   whiteout)
    \/ \E out \in TransOutcomes : RenameIsRo(out)
    \/ \E restart \in BOOLEAN : TxRenameTrans(restart)
    \/ \E out \in TransOutcomes \cup {"ENOMEM"} : TxWhiteout(out)
    \/ \E out \in TransOutcomes : TxCommit(out)
    \/ TxCrash

SpecTx == InitTx /\ [][NextTx]_vars

(***************************************************************************)
(* C22: a rename is all or nothing.  While bch2_rename2 runs, when it has  *)
(* returned and when the machine stopped inside it, the stored filesystem  *)
(* is what it was before the call or what the last attempt's complete      *)
(* transaction (both dirents, the inodes, the subvolume records, the       *)
(* whiteout) makes of it; it changes in the commit step only; after a      *)
(* return of 0 it is the latter, after an error the former.                *)
(***************************************************************************)
InRename2 == last.op = "rename2" /\ vfs.fn = "bch2_rename2"

RenamePost == RenameAttempt(last.pre, last, last.now).fs

C22_State ==
    InRename2 =>
        /\ fs = last.pre \/ fs = RenamePost
        /\ (vfs.pc = "done" /\ vfs.ret = BCH_ERR_ok) => fs = RenamePost
        /\ (vfs.pc = "done" /\ vfs.ret # BCH_ERR_ok) => fs = last.pre
        /\ vfs.pc \in {"is_ro", "retry", "whiteout", "commit"} => fs = last.pre

C22_Step ==
    (fs' # fs) => (vfs.pc = "commit" /\ vfs'.pc = "done" /\ vfs'.ret = BCH_ERR_ok)

\* C22: the stored filesystem is the state before the rename or the
\* complete state after it, and changes only by the one commit
C22_AllOrNothing == [](C22_State) /\ [][C22_Step]_vars

\* a rename with a whiteout was committed after a restart of an earlier
\* attempt: dirents, inodes and the whiteout are stored together
C22_Witness ==
    /\ InRename2 /\ vfs.pc = "done" /\ vfs.ret = BCH_ERR_ok
    /\ vfs.tries > 0 /\ last.whiteout
    /\ fs # last.pre /\ fs = RenamePost
    /\ fs.dirents # last.pre.dirents /\ fs.inodes # last.pre.inodes
    /\ DirentKey(last.src_dir, last.src_name) \in DOMAIN fs.dirents

\* the machine stopped with a complete transaction staged and not committed
C22_WitnessCrash ==
    /\ InRename2 /\ vfs.pc = "crashed"
    /\ last.staged # fs /\ fs = last.pre

(***************************************************************************)
(* C23: no directory that has entries is removed from the namespace.  An   *)
(* unlink of a directory with entries fails and stages nothing unless      *)
(* deleting_subvol is set; a rename in mode BCH_RENAME_OVERWRITE fails     *)
(* and stores nothing when the destination is a directory with entries     *)
(* or when only one of source and destination is a directory; so the       *)
(* directory of every dirent is the root, has a dirent of its own, or is    *)
(* the root of a deleted subvolume.                                        *)
(***************************************************************************)
IsNewOp(o) == last'.op = o /\ last'.n = last.n + 1

HasEntries(f, k) == k \in DOMAIN f.inodes /\ f.inodes[k].dir /\ ~EmptyDir(f, k)

C23_UnlinkStep ==
    (IsNewOp("unlink") /\ HasEntries(fs, last'.inum) /\ ~last'.deleting_subvol)
        => /\ last'.ret # BCH_ERR_ok
           /\ last'.staged = fs
           /\ fs' = fs

C23_RenameStep ==
    (IsNewOp("rename") /\ last'.mode = "BCH_RENAME_OVERWRITE"
        /\ \/ HasEntries(fs, last'.dst_inum)
           \/ fs.inodes[last'.src_inum].dir # fs.inodes[last'.dst_inum].dir)
        => /\ last'.ret # BCH_ERR_ok
           /\ fs' = fs

Linked(f, k) ==
    \/ k = RootDir
    \/ \E d \in DOMAIN f.dirents :
            DirentTarget(f, <<d[1], d[2]>>, f.dirents[d]) = k

DeletedSubvol(f, k) ==
    /\ f.inodes[k].bi_subvol # 0
    /\ f.subvols[f.inodes[k].bi_subvol].unlinked

C23_State ==
    \A d \in DOMAIN fs.dirents :
        /\ <<d[1], d[2]>> \in DOMAIN fs.inodes
        /\ Linked(fs, <<d[1], d[2]>>) \/ DeletedSubvol(fs, <<d[1], d[2]>>)

\* C23: directories with entries stay in the namespace
C23_NonEmptyDirsStay ==
    [](C23_State) /\ [][C23_UnlinkStep /\ C23_RenameStep]_vars

\* an unlink of a directory that has entries was refused
C23_Witness ==
    /\ last.op = "unlink" /\ last.ret = "ENOTEMPTY"
    /\ ~last.deleting_subvol
    /\ HasEntries(fs, last.inum)
    /\ fs.inodes[last.inum].bi_subvol = 0

\* a rename over a directory that has entries was refused
C23_WitnessRename ==
    /\ last.op = "rename" /\ last.ret = "ENOTEMPTY"
    /\ last.mode = "BCH_RENAME_OVERWRITE"
    /\ HasEntries(fs, last.dst_inum)

(***************************************************************************)
(* C24.  bch2_unlink_trans: subvolume roots and other inodes.              *)
(***************************************************************************)
\* the links of an inode as stored: none when the unlinked flag is set,
\* bi_nlink above the first one otherwise
StoredLinks(l) == IF l[2] THEN 0 ELSE l[1] + 1

\* the target of the unlink step is a subvolume root
TargetIsSubvolRoot == fs.inodes[last'.inum].bi_subvol # 0

\* a successful unlink whose target is a subvolume root or that has
\* deleting_subvol set: the subvolume record is unlinked, the target's
\* link count is as it was, the dirent is deleted at the snapshot id of the
\* key that was there
C24_SubvolStep ==
    (IsNewOp("unlink") /\ last'.ret = BCH_ERR_ok
        /\ (last'.deleting_subvol \/ TargetIsSubvolRoot))
        => /\ fs'.subvols[fs.inodes[last'.inum].bi_subvol].unlinked
           /\ InodeLinks(fs', last'.inum) = last'.nlink
           /\ last'.del_snapshot = last'.key_snapshot
           /\ DirentKey(last'.dir, last'.name) \notin DOMAIN fs'.dirents

\* any other successful unlink: the target has one link less, no subvolume
\* record changes, the dirent is deleted in the current snapshot of the
\* directory's subvolume
C24_InodeStep ==
    (IsNewOp("unlink") /\ last'.ret = BCH_ERR_ok
        /\ ~(last'.deleting_subvol \/ TargetIsSubvolRoot))
        => /\ StoredLinks(InodeLinks(fs', last'.inum))
                = StoredLinks(last'.nlink) - 1
           /\ fs'.subvols = fs.subvols
           /\ last'.del_snapshot = SubvolSnapshot(fs, last'.dir[1])
           /\ DirentKey(last'.dir, last'.name) \notin DOMAIN fs'.dirents

\* deleting_subvol with a target that is no subvolume root, and a
\* subvolume target with child subvolumes, fail and stage nothing
C24_FailStep ==
    (IsNewOp("unlink")
        /\ \/ last'.deleting_subvol /\ ~TargetIsSubvolRoot
           \/ TargetIsSubvolRoot
                /\ ~NoSubvolChildren(fs, fs.inodes[last'.inum].bi_subvol))
        => /\ last'.ret # BCH_ERR_ok
           /\ last'.staged = fs
           /\ fs' = fs

\* C24: bch2_unlink_trans unlinks the subvolume record, leaves the target's
\* link count and deletes the dirent at the existing key's snapshot when
\* the target is a subvolume root or deleting_subvol is set; otherwise it
\* takes one link from the target and deletes the dirent in the current
\* snapshot; deleting_subvol on a target that is no subvolume root and a
\* subvolume target with child subvolumes fail without a mutation.
C24_UnlinkSubvol ==
    [][C24_SubvolStep /\ C24_InodeStep /\ C24_FailStep]_vars

\* a subvolume was unlinked whose dirent was written before its parent
\* subvolume was snapshotted: the key's snapshot is not the current one
C24_Witness ==
    /\ last.op = "unlink" /\ last.ret = BCH_ERR_ok
    /\ last.inum \in DOMAIN fs.inodes
    /\ fs.inodes[last.inum].bi_subvol # 0
    /\ fs.subvols[fs.inodes[last.inum].bi_subvol].unlinked
    /\ last.del_snapshot = last.key_snapshot
    /\ last.del_snapshot # SubvolSnapshot(fs, last.dir[1])

\* a file lost one of its two links
C24_WitnessInode ==
    /\ last.op = "unlink" /\ last.ret = BCH_ERR_ok
    /\ ~last.deleting_subvol
    /\ last.nlink = <<1, FALSE>>
    /\ InodeLinks(fs, last.inum) = <<0, FALSE>>

\* the unlink of a subvolume with a child subvolume was refused
C24_WitnessChildren ==
    /\ last.op = "unlink" /\ last.ret = "ENOTEMPTY"
    /\ last.deleting_subvol
    /\ fs.inodes[last.inum].bi_subvol # 0
    /\ ~NoSubvolChildren(fs, fs.inodes[last.inum].bi_subvol)

\* deleting_subvol was refused for a target that is no subvolume root
C24_WitnessNotSubvol ==
    /\ last.op = "unlink" /\ last.ret = "ENOENT_not_subvol"
    /\ last.deleting_subvol

(***************************************************************************)
(* C25.  bch2_unlink_trans and the target's back-pointer.                  *)
(***************************************************************************)
\* the position (directory inode number, offset) of the removed dirent
UnlinkPosition == <<last'.dir[2], NameOffset(last'.name)>>

\* C25: a successful bch2_unlink_trans sets the target's back-pointer to
\* (0, 0) when it was the position of the removed dirent and leaves it as
\* it was otherwise, as when another hard link holds it.
C25_UnlinkBackpointer ==
    [][(IsNewOp("unlink") /\ last'.ret = BCH_ERR_ok)
        => Backpointer(fs', last'.inum) =
              IF last'.bp = UnlinkPosition THEN <<0, 0>> ELSE last'.bp]_vars

\* the removed dirent was the one the back-pointer named
C25_Witness ==
    /\ last.op = "unlink" /\ last.ret = BCH_ERR_ok
    /\ last.bp = <<last.dir[2], NameOffset(last.name)>>
    /\ Backpointer(fs, last.inum) = <<0, 0>>

\* a hard link was removed that the back-pointer did not name
C25_WitnessUnchanged ==
    /\ last.op = "unlink" /\ last.ret = BCH_ERR_ok
    /\ last.bp # <<0, 0>>
    /\ last.bp # <<last.dir[2], NameOffset(last.name)>>
    /\ Backpointer(fs, last.inum) = last.bp
    /\ InodeLinks(fs, last.inum)[2] = FALSE

(***************************************************************************)
(* SpecHash: the VFS inode table c->vfs_inodes_table for one (subvol,      *)
(* inum).  vfs.obj is the struct bch_inode_info objects the threads        *)
(* allocated, vfs.thr each thread's position in bch2_inode_hash_insert,    *)
(* bch2_inode_hash_find, bch2_inode_hash_remove and bch2_evict_inode.      *)
(* What runs with i_lock held is one step.  An object stays readable       *)
(* after bch2_evict_inode returned: its memory is freed after an RCU       *)
(* grace period, which is not modelled.                                    *)
(***************************************************************************)
\* struct bch_inode_info objects allocated in one behaviour
MaxInodes == 3

\* threads calling into the inode table
HashThreads == 2

\* bch2_inode_hash_find calls in one behaviour
MaxFinds == 2

\* bch2_inode_hash_remove calls for one inode besides its eviction's
MaxRemoves == 2

\* struct bch_inode_info objects allocated in a behaviour with such calls
MaxInodesRm == 2

HObjs == 1..MaxInodes
HThreads == 1..HashThreads

\* NULL, and the ERR_PTR bch2_inode_hash_find returns when bch2_trans_relock
\* failed
HNull == 0
HErr == -1

\* memory not yet allocated by bch2_new_inode
NoObj ==
    [alloc |-> FALSE, hashed |-> FALSE, intable |-> FALSE, i_count |-> 0,
     freeing |-> FALSE, i_new |-> FALSE, nlink |-> 1, destroyed |-> FALSE,
     rm |-> FALSE, removed |-> 0, lost |-> FALSE, tmpfile |-> FALSE,
     rmcalls |-> 0, truncated |-> FALSE]

HIdle ==
    [fn |-> "none", pc |-> "idle", inode |-> 0, old |-> 0, ev |-> 0,
     trans |-> FALSE, locked |-> FALSE, ret |-> HNull, remove |-> FALSE,
     delete |-> FALSE, after |-> "idle", holds |-> {}]

\* rhashtable_lookup_fast(&c->vfs_inodes_table, &inum, ...)
__bch2_inode_hash_find ==
    IF \E o \in HObjs : vfs.obj[o].intable
    THEN CHOOSE o \in HObjs : vfs.obj[o].intable
    ELSE HNull

HashPc(t, fn, at) == vfs.thr[t].fn = fn /\ vfs.thr[t].pc = at

HUnchanged == UNCHANGED <<core_read_vars, fs, last>>

LoserNlinkKept(nlink) == nlink

\* set_nlink(&inode->v, 1) before discard_new_inode
LoserNlink(nlink) == 1

HashRemoveTestAlways(hashed) == TRUE

\* test_and_clear_bit(EI_INODE_HASHED, &inode->ei_flags): the old bit
HashRemoveTest(hashed) == hashed

FindNeverWaits(i_state_freeing) == FALSE

\* inode->v.i_state & (I_FREEING|I_WILL_FREE)
FindMustWait(i_state_freeing) == i_state_freeing

WaitKeepsLocks(locked) == locked

\* bch2_trans_unlock(trans) before __wait_on_freeing_inode
WaitTransUnlock(locked) == FALSE

\* a caller of bch2_vfs_inode_get, bch2_lookup_trans or __bch2_create has
\* allocated and initialised an inode and calls bch2_inode_hash_insert
HashInsertCall(t, o, tmpfile, tr) ==
    /\ vfs.thr[t].pc = "idle"
    /\ ~vfs.obj[o].alloc
    /\ \A x \in HObjs : x < o => vfs.obj[x].alloc
    /\ vfs.ext => o <= MaxInodesRm
    /\ vfs' = [vfs EXCEPT
                 !.obj[o] = [NoObj EXCEPT !.alloc = TRUE, !.i_count = 1,
                                          !.nlink = IF tmpfile THEN 0 ELSE 1,
                                          !.tmpfile = tmpfile],
                 !.thr[t] = [HIdle EXCEPT !.fn = "insert", !.pc = "set_bit",
                                          !.inode = o, !.trans = tr,
                                          !.locked = tr,
                                          !.holds = vfs.thr[t].holds]]
    /\ HUnchanged

\* set_bit(EI_INODE_HASHED, &inode->ei_flags)
HashInsertSetBit(t) ==
    /\ HashPc(t, "insert", "set_bit")
    /\ vfs' = [vfs EXCEPT !.obj[vfs.thr[t].inode].hashed = TRUE,
                          !.thr[t].pc = "lookup_insert"]
    /\ HUnchanged

\* rhashtable_lookup_insert_fast: inserts unless the key is in the table;
\* then inode_fake_hash, inode_sb_list_add, list_add and return inode
HashInsertLookupInsert(t) ==
    /\ HashPc(t, "insert", "lookup_insert")
    /\ vfs' = IF __bch2_inode_hash_find = HNull
              THEN [vfs EXCEPT
                      !.obj[vfs.thr[t].inode].intable = TRUE,
                      !.thr[t] = [HIdle EXCEPT
                                     !.ret = vfs.thr[t].inode,
                                     !.holds = vfs.thr[t].holds
                                                 \cup {vfs.thr[t].inode}]]
              ELSE [vfs EXCEPT !.thr[t].pc = "find_lookup"]
    /\ HUnchanged

\* bch2_inode_hash_find called from bch2_vfs_inode_get (no transaction) or
\* bch2_lookup_trans
HashFindCall(t, tr) ==
    /\ vfs.thr[t].pc = "idle"
    /\ vfs.finds < MaxFinds
    /\ vfs' = [vfs EXCEPT
                 !.finds = @ + 1,
                 !.thr[t] = [HIdle EXCEPT !.fn = "find", !.pc = "find_lookup",
                                          !.trans = tr, !.locked = tr,
                                          !.holds = vfs.thr[t].holds]]
    /\ HUnchanged

\* bch2_inode_hash_find returns r: to its caller, or into
\* bch2_inode_hash_insert, which tries the insert again on NULL
HashFindReturn(t, r) ==
    IF vfs.thr[t].fn = "insert"
    THEN IF r = HNull THEN [vfs.thr[t] EXCEPT !.pc = "lookup_insert", !.old = 0]
         ELSE [vfs.thr[t] EXCEPT !.pc = "lost", !.old = r]
    ELSE [HIdle EXCEPT !.ret = r,
                       !.holds = vfs.thr[t].holds
                                   \cup (IF r > 0 THEN {r} ELSE {})]

\* inode = __bch2_inode_hash_find(c, inum)
HashFindLookup(t) ==
    /\ vfs.thr[t].fn \in {"insert", "find"} /\ vfs.thr[t].pc = "find_lookup"
    /\ vfs' = IF __bch2_inode_hash_find = HNull
              THEN [vfs EXCEPT !.thr[t] = HashFindReturn(t, HNull)]
              ELSE [vfs EXCEPT !.thr[t].old = __bch2_inode_hash_find,
                               !.thr[t].pc = "find_lock"]
    /\ HUnchanged

\* with inode->v.i_lock held: not EI_INODE_HASHED, return NULL; freeing,
\* drop the transaction's locks and sleep; else __iget and return it
HashFindLocked(t) ==
    /\ vfs.thr[t].fn \in {"insert", "find"} /\ vfs.thr[t].pc = "find_lock"
    /\ LET o == vfs.thr[t].old
       IN  vfs' = IF ~vfs.obj[o].hashed
                  THEN [vfs EXCEPT !.thr[t] = HashFindReturn(t, HNull)]
                  ELSE IF FindMustWait(vfs.obj[o].freeing)
                  THEN [vfs EXCEPT
                          !.thr[t].pc = "wait",
                          !.thr[t].locked =
                              IF vfs.thr[t].trans THEN WaitTransUnlock(@) ELSE @]
                  ELSE [vfs EXCEPT !.obj[o].i_count = @ + 1,
                                   !.thr[t] = HashFindReturn(t, o)]
    /\ HUnchanged

\* __wait_on_freeing_inode returns when evict() has woken the waiters of
\* __I_NEW; then bch2_trans_relock, and goto repeat
HashFindWake(t, relock) ==
    /\ vfs.thr[t].fn \in {"insert", "find"} /\ vfs.thr[t].pc = "wait"
    /\ vfs.obj[vfs.thr[t].old].destroyed
    /\ vfs' = IF vfs.thr[t].trans /\ ~relock
              THEN [vfs EXCEPT !.thr[t] = HashFindReturn(t, HErr)]
              ELSE [vfs EXCEPT !.thr[t].pc = "find_lookup",
                               !.thr[t].locked = vfs.thr[t].trans]
    /\ HUnchanged

\* the insert lost: clear_bit(EI_INODE_HASHED), I_NEW, set_nlink(1), and
\* discard_new_inode, which drops the last reference: I_FREEING and evict()
HashInsertLost(t) ==
    /\ HashPc(t, "insert", "lost")
    /\ LET o == vfs.thr[t].inode
       IN  vfs' = [vfs EXCEPT
                     !.obj[o] = [@ EXCEPT !.hashed = FALSE, !.i_new = FALSE,
                                          !.nlink = LoserNlink(@),
                                          !.i_count = 0, !.freeing = TRUE,
                                          !.lost = TRUE],
                     !.thr[t].pc = "evict", !.thr[t].ev = o,
                     !.thr[t].after = "insert_ret"]
    /\ HUnchanged

\* iput of a reference a caller holds; the last one evicts the inode when
\* generic_drop_inode says so (no links), and leaves it cached otherwise
HashIput(t, o) ==
    /\ vfs.thr[t].pc = "idle"
    /\ o \in vfs.thr[t].holds
    /\ LET drop == vfs.obj[o].i_count = 1 /\ vfs.obj[o].nlink = 0
       IN  vfs' = [vfs EXCEPT
                     !.obj[o].i_count = @ - 1,
                     !.obj[o].freeing = drop,
                     !.thr[t] = IF drop
                                THEN [HIdle EXCEPT !.fn = "evict", !.pc = "evict",
                                                   !.ev = o,
                                                   !.holds = vfs.thr[t].holds \ {o}]
                                ELSE [vfs.thr[t] EXCEPT !.holds = @ \ {o}]]
    /\ HUnchanged

\* the shrinker evicts a cached inode nobody holds
HashPrune(t, o) ==
    /\ vfs.thr[t].pc = "idle"
    /\ vfs.obj[o].alloc /\ vfs.obj[o].intable /\ vfs.obj[o].hashed
    /\ vfs.obj[o].i_count = 0 /\ ~vfs.obj[o].freeing
    /\ vfs' = [vfs EXCEPT
                 !.obj[o].freeing = TRUE,
                 !.thr[t] = [HIdle EXCEPT !.fn = "evict", !.pc = "evict",
                                          !.ev = o,
                                          !.holds = vfs.thr[t].holds]]
    /\ HUnchanged

EvictRemovesFirstAlways(delete) == TRUE

\* if (!delete) before the first bch2_inode_hash_remove of bch2_evict_inode
EvictRemovesFirst(delete) == ~delete

\* bch2_evict_inode: delete = !inode->v.i_nlink; if (!delete)
\* bch2_inode_hash_remove
bch2_evict_inode(t) ==
    /\ vfs.thr[t].pc = "evict"
    /\ LET delete == vfs.obj[vfs.thr[t].ev].nlink = 0
           first == EvictRemovesFirst(delete)
       IN  vfs' = [vfs EXCEPT
                     !.thr[t].delete = delete,
                     !.thr[t].pc = IF first THEN "rm_test" ELSE "evict_clear",
                     !.thr[t].after = IF ~first THEN @
                                      ELSE IF @ = "insert_ret" THEN "clear_ret"
                                      ELSE "clear"]
    /\ HUnchanged

\* bch2_inode_hash_remove: test_and_clear_bit of EI_INODE_HASHED with
\* i_lock held
HashRemoveTestAndClear(t) ==
    /\ vfs.thr[t].pc = "rm_test"
    /\ vfs' = [vfs EXCEPT
                 !.thr[t].remove = HashRemoveTest(vfs.obj[vfs.thr[t].ev].hashed),
                 !.thr[t].pc = "rm_table",
                 !.obj[vfs.thr[t].ev].hashed = FALSE,
                 !.obj[vfs.thr[t].ev].rmcalls = @ + 1]
    /\ HUnchanged

\* where the caller of bch2_inode_hash_remove goes on
HashAfterRemove(t) ==
    CASE vfs.thr[t].after = "clear" ->
            [vfs.thr[t] EXCEPT !.pc = "evict_clear", !.after = "idle"]
      [] vfs.thr[t].after = "clear_ret" ->
            [vfs.thr[t] EXCEPT !.pc = "evict_clear", !.after = "insert_ret"]
      [] vfs.thr[t].after = "end" ->
            [vfs.thr[t] EXCEPT !.pc = "evict_end", !.after = "idle"]
      [] vfs.thr[t].after = "end_ret" ->
            [vfs.thr[t] EXCEPT !.pc = "evict_end", !.after = "insert_ret"]
      [] OTHER -> [HIdle EXCEPT !.holds = vfs.thr[t].holds]

\* bch2_inode_hash_remove: if (remove) rhashtable_remove_fast, BUG_ON(ret)
HashRemoveFromTable(t) ==
    /\ vfs.thr[t].pc = "rm_table"
    /\ LET o == vfs.thr[t].ev
       IN  vfs' = IF ~vfs.thr[t].remove
                  THEN [vfs EXCEPT !.thr[t] = HashAfterRemove(t)]
                  ELSE IF vfs.obj[o].intable
                  THEN [vfs EXCEPT !.obj[o].intable = FALSE,
                                   !.obj[o].removed = @ + 1,
                                   !.thr[t] = HashAfterRemove(t)]
                  ELSE [vfs EXCEPT !.bug = TRUE,
                                   !.thr[t] = HashAfterRemove(t)]
    /\ HUnchanged

\* bch2_evict_inode: truncate_inode_pages_final, clear_inode; if (delete)
\* the quota, bch2_inode_rm and bch2_inode_hash_remove
EvictClear(t) ==
    /\ vfs.thr[t].pc = "evict_clear"
    /\ vfs' = IF vfs.thr[t].delete
              THEN [vfs EXCEPT
                      !.obj[vfs.thr[t].ev].truncated = TRUE,
                      !.obj[vfs.thr[t].ev].rm = TRUE,
                      !.thr[t].pc = "rm_test",
                      !.thr[t].after = IF @ = "insert_ret" THEN "end_ret"
                                       ELSE "end"]
              ELSE [vfs EXCEPT !.obj[vfs.thr[t].ev].truncated = TRUE,
                               !.thr[t].pc = "evict_end"]
    /\ HUnchanged

\* bch2_evict_inode returns; evict() wakes the waiters of __I_NEW, and a
\* bch2_inode_hash_insert that discarded its inode returns old
EvictEnd(t) ==
    /\ vfs.thr[t].pc = "evict_end"
    /\ vfs' = [vfs EXCEPT
                 !.obj[vfs.thr[t].ev].destroyed = TRUE,
                 !.thr[t] =
                    IF vfs.thr[t].after = "insert_ret"
                    THEN [HIdle EXCEPT
                            !.ret = vfs.thr[t].old,
                            !.holds = vfs.thr[t].holds
                                        \cup (IF vfs.thr[t].old > 0
                                              THEN {vfs.thr[t].old} ELSE {})]
                    ELSE [HIdle EXCEPT !.holds = vfs.thr[t].holds]]
    /\ HUnchanged

\* one more bch2_inode_hash_remove of an inode the caller holds
HashRemoveCall(t, o) ==
    /\ vfs.ext
    /\ vfs.thr[t].pc = "idle"
    /\ o \in vfs.thr[t].holds
    /\ vfs.obj[o].rmcalls < MaxRemoves
    /\ vfs' = [vfs EXCEPT !.thr[t].fn = "remove", !.thr[t].pc = "rm_test",
                          !.thr[t].ev = o, !.thr[t].after = "idle"]
    /\ HUnchanged

InitHashIn(ext) ==
    /\ InitState([threads |-> {1}, updates |-> {}, reads |-> {},
                  maxops |-> 0, fails |-> {"none"}])
    /\ arg = [t \in {1} |-> NoArg]
    /\ may_go_rw = TRUE
    /\ ReadIdle
    /\ fs = FsEmpty
    /\ last = NoLast
    /\ vfs = [obj |-> [o \in HObjs |-> NoObj],
              thr |-> [t \in HThreads |-> HIdle],
              bug |-> FALSE, finds |-> 0, ext |-> ext]

InitHash == InitHashIn(FALSE)

NextHash ==
    \/ \E t \in HThreads, o \in HObjs, tmpfile \in BOOLEAN, tr \in BOOLEAN :
            HashInsertCall(t, o, tmpfile, tr)
    \/ \E t \in HThreads : HashInsertSetBit(t)
    \/ \E t \in HThreads : HashInsertLookupInsert(t)
    \/ \E t \in HThreads, tr \in BOOLEAN : HashFindCall(t, tr)
    \/ \E t \in HThreads : HashFindLookup(t)
    \/ \E t \in HThreads : HashFindLocked(t)
    \/ \E t \in HThreads, relock \in BOOLEAN : HashFindWake(t, relock)
    \/ \E t \in HThreads : HashInsertLost(t)
    \/ \E t \in HThreads, o \in HObjs : HashIput(t, o)
    \/ \E t \in HThreads, o \in HObjs : HashPrune(t, o)
    \/ \E t \in HThreads : bch2_evict_inode(t)
    \/ \E t \in HThreads : HashRemoveTestAndClear(t)
    \/ \E t \in HThreads : HashRemoveFromTable(t)
    \/ \E t \in HThreads : EvictClear(t)
    \/ \E t \in HThreads : EvictEnd(t)

SpecHash == InitHash /\ [][NextHash]_vars

InitHashRm == InitHashIn(TRUE)

NextHashRm ==
    \/ \E t \in HThreads, o \in HObjs, tmpfile \in BOOLEAN, tr \in BOOLEAN :
            HashInsertCall(t, o, tmpfile, tr)
    \/ \E t \in HThreads : HashInsertSetBit(t)
    \/ \E t \in HThreads : HashInsertLookupInsert(t)
    \/ \E t \in HThreads : HashFindLookup(t)
    \/ \E t \in HThreads : HashFindLocked(t)
    \/ \E t \in HThreads, relock \in BOOLEAN : HashFindWake(t, relock)
    \/ \E t \in HThreads : HashInsertLost(t)
    \/ \E t \in HThreads, o \in HObjs : HashIput(t, o)
    \/ \E t \in HThreads, o \in HObjs : HashPrune(t, o)
    \/ \E t \in HThreads : bch2_evict_inode(t)
    \/ \E t \in HThreads : HashRemoveTestAndClear(t)
    \/ \E t \in HThreads : HashRemoveFromTable(t)
    \/ \E t \in HThreads : EvictClear(t)
    \/ \E t \in HThreads : EvictEnd(t)
    \/ \E t \in HThreads, o \in HObjs : HashRemoveCall(t, o)

SpecHashRm == InitHashRm /\ [][NextHashRm]_vars

\* SpecEvict: two threads that insert, drop and evict inodes of the key and
\* a third that looks the key up
EvictThreads == 3

EThreads == 1..EvictThreads

InitEvict ==
    /\ InitState([threads |-> {1}, updates |-> {}, reads |-> {},
                  maxops |-> 0, fails |-> {"none"}])
    /\ arg = [t \in {1} |-> NoArg]
    /\ may_go_rw = TRUE
    /\ ReadIdle
    /\ fs = FsEmpty
    /\ last = NoLast
    /\ vfs = [obj |-> [o \in HObjs |-> NoObj],
              thr |-> [t \in EThreads |-> HIdle],
              bug |-> FALSE, finds |-> 0, ext |-> FALSE]

NextEvict ==
    \/ \E t \in HThreads, o \in HObjs, tmpfile \in BOOLEAN :
            HashInsertCall(t, o, tmpfile, FALSE)
    \/ \E t \in EThreads : HashInsertSetBit(t)
    \/ \E t \in EThreads : HashInsertLookupInsert(t)
    \/ \E tr \in BOOLEAN : HashFindCall(EvictThreads, tr)
    \/ \E t \in EThreads : HashFindLookup(t)
    \/ \E t \in EThreads : HashFindLocked(t)
    \/ \E t \in EThreads, relock \in BOOLEAN : HashFindWake(t, relock)
    \/ \E t \in EThreads : HashInsertLost(t)
    \/ \E t \in EThreads, o \in HObjs : HashIput(t, o)
    \/ \E t \in HThreads, o \in HObjs : HashPrune(t, o)
    \/ \E t \in EThreads : bch2_evict_inode(t)
    \/ \E t \in EThreads : HashRemoveTestAndClear(t)
    \/ \E t \in EThreads : HashRemoveFromTable(t)
    \/ \E t \in EThreads : EvictClear(t)
    \/ \E t \in EThreads : EvictEnd(t)

SpecEvict == InitEvict /\ [][NextEvict]_vars

(***************************************************************************)
(* C26.  Concurrent bch2_inode_hash_insert calls for one key.              *)
(***************************************************************************)
HashTable == {o \in HObjs : vfs.obj[o].intable}

\* thread t took a step of discarding the inode it lost the insert with
DiscardStep(t) ==
    /\ vfs.thr[t].after \in {"insert_ret", "clear_ret", "end_ret"}
    /\ vfs'.thr[t] # vfs.thr[t]

C26_State ==
    /\ Cardinality(HashTable) <= 1
    /\ \A t \in HThreads : \A o \in vfs.thr[t].holds :
            o \in HashTable /\ ~vfs.obj[o].freeing
    /\ \A o \in HObjs :
            vfs.obj[o].lost => ~vfs.obj[o].rm /\ vfs.obj[o].removed = 0
    /\ ~vfs.bug
    /\ (\E t \in HThreads : vfs.thr[t].pc = "idle" /\ vfs.thr[t].ret = HErr)
            => \E o \in HObjs : vfs.obj[o].freeing /\ ~vfs.obj[o].lost

C26_Step ==
    \A t \in HThreads :
        DiscardStep(t) =>
            \A o \in HObjs \ {vfs.thr[t].ev} : vfs'.obj[o] = vfs.obj[o]

\* C26: under every interleaving of bch2_inode_hash_insert calls for one
\* key the table holds at most one entry, every reference a caller was
\* handed is to that entry, a caller is handed an error only when an entry
\* that was in the table is being evicted, and discarding the inode of a
\* lost insert changes no other inode, takes nothing out of the table and
\* never calls bch2_inode_rm, also for a tmpfile without links.
C26_InsertRace == [](C26_State) /\ [][C26_Step]_vars

\* two inserts raced, the loser was a tmpfile and is discarded, both
\* callers hold the winner
C26_Witness ==
    \E w, l \in HObjs :
        /\ vfs.obj[l].lost /\ vfs.obj[l].tmpfile /\ vfs.obj[l].destroyed
        /\ vfs.obj[w].intable
        /\ \A t \in HThreads :
              vfs.thr[t].pc = "idle" /\ vfs.thr[t].ret = w
                /\ w \in vfs.thr[t].holds

(***************************************************************************)
(* C27.  bch2_inode_hash_remove.                                           *)
(***************************************************************************)
\* thread t took a step of bch2_inode_hash_remove
RemoveStep(t) ==
    /\ vfs.thr[t].pc \in {"rm_test", "rm_table"}
    /\ vfs'.thr[t] # vfs.thr[t]

C27_State ==
    /\ ~vfs.bug
    /\ \A o \in HObjs : vfs.obj[o].removed <= 1

C27_Step ==
    \A t \in HThreads :
        LET o == vfs.thr[t].ev
        IN  /\ (RemoveStep(t) /\ vfs.thr[t].pc = "rm_test" /\ ~vfs.obj[o].hashed)
                => /\ ~vfs'.thr[t].remove
                   /\ vfs'.obj = [vfs.obj EXCEPT ![o].rmcalls = @ + 1]
            /\ (RemoveStep(t) /\ vfs.thr[t].pc = "rm_table")
                => /\ ~vfs.thr[t].remove => vfs'.obj = vfs.obj
                   /\ vfs.thr[t].remove
                        => vfs'.obj = [vfs.obj EXCEPT ![o].intable = FALSE,
                                                      ![o].removed = 1]

\* C27: any number of bch2_inode_hash_remove calls for an inode, concurrent
\* or not, take it out of the table once, and none of them fails; a call
\* for an inode whose EI_INODE_HASHED is clear changes nothing.
C27_RemoveOnce == [](C27_State) /\ [][C27_Step]_vars

\* two threads are in bch2_inode_hash_remove of one inode, one of them with
\* remove set
C27_Witness ==
    \E t1, t2 \in HThreads :
        /\ t1 # t2
        /\ vfs.thr[t1].pc = "rm_table" /\ vfs.thr[t2].pc = "rm_table"
        /\ vfs.thr[t1].ev = vfs.thr[t2].ev
        /\ vfs.thr[t1].remove /\ ~vfs.thr[t2].remove

\* an inode was removed three times: by two callers and by its eviction
C27_WitnessAgain ==
    \E o \in HObjs :
        vfs.obj[o].rmcalls >= 3 /\ vfs.obj[o].removed = 1 /\ vfs.obj[o].destroyed

(***************************************************************************)
(* C28.  bch2_inode_hash_find.                                             *)
(***************************************************************************)
\* bch2_inode_hash_find of thread t returns the inode o in this step
FindReturns(t, o) ==
    /\ vfs.thr[t].pc = "find_lock"
    /\ vfs.thr[t].old = o
    /\ \/ vfs.thr[t].fn = "find" /\ vfs'.thr[t].pc = "idle" /\ vfs'.thr[t].ret = o
       \/ vfs.thr[t].fn = "insert" /\ vfs'.thr[t].pc = "lost"

\* thread t wakes from __wait_on_freeing_inode in this step
FindWakes(t) == vfs.thr[t].pc = "wait" /\ vfs'.thr[t].pc # "wait"

\* what bch2_inode_hash_find of thread t has returned after the step
FindResult(t) ==
    IF vfs.thr[t].fn = "find" THEN vfs'.thr[t].ret ELSE vfs'.thr[t].old

C28_State ==
    \A t \in HThreads :
        vfs.thr[t].pc = "wait"
            => /\ ~vfs.thr[t].locked
               /\ vfs.obj[vfs.thr[t].old].freeing

C28_Step ==
    \A t \in HThreads :
        /\ \A o \in HObjs :
              FindReturns(t, o)
                => /\ vfs.obj[o].hashed /\ vfs.obj[o].intable
                   /\ ~vfs.obj[o].freeing /\ ~vfs.obj[o].destroyed
                   /\ vfs'.obj[o].i_count = vfs.obj[o].i_count + 1
                   /\ vfs.thr[t].fn = "find" => o \in vfs'.thr[t].holds
        /\ (FindWakes(t) /\ vfs.thr[t].trans)
              => \/ vfs'.thr[t].pc = "find_lookup" /\ vfs'.thr[t].locked
                 \/ vfs'.thr[t].pc # "find_lookup" /\ FindResult(t) = HErr

C28_WitnessWait ==
    \E t \in HThreads :
        /\ vfs.thr[t].fn = "find" /\ vfs.thr[t].pc = "wait"
        /\ ~vfs.thr[t].trans

\* a find returned a cached inode another thread had inserted
C28_WitnessFound ==
    \E t \in HThreads, o \in HObjs :
        /\ vfs.finds > 0 /\ vfs.thr[t].pc = "idle" /\ vfs.thr[t].ret = o
        /\ vfs.obj[o].i_count = 2

(***************************************************************************)
(* SpecLock: ei_update_lock of three cached inodes, the directory LockDir  *)
(* and the files LockFile and LockOther in it, and two threads in          *)
(* __bch2_create, __bch2_link, __bch2_unlink, bch2_rename2,                *)
(* bch2_setattr_nonsize and bch2_update_time.  vfs.lock is the owner of    *)
(* each mutex; a thread's locks are the mutexes its function takes, in     *)
(* the order of bch2_lock_inodes, and its writes the cached inodes whose   *)
(* btree key its transaction rewrites and whose cached copy                *)
(* bch2_inode_update_after_write updates.                                  *)
(***************************************************************************)
\* calls in one behaviour
MaxLockCalls == 3

\* restarts of one transaction
MaxLockTries == 1

LockThreads == {1, 2}
LockDir == 1
LockFile == 2
LockOther == 3
LockInodes == {LockDir, LockFile, LockOther}

LockIdle ==
    [fn |-> "none", pc |-> "idle", want |-> {}, held |-> {}, writes |-> {},
     tries |-> 0]

\* the mutexes the function takes before bch2_trans_get
UpdateLocks(fn, inode) ==
    CASE fn = "create"  -> {LockDir}
      [] fn = "tmpfile" -> {}
      [] fn = "link"    -> {inode}
      [] fn = "unlink"  -> {LockDir, inode}
      [] fn = "rename"  -> {LockDir, LockFile, inode}
      [] OTHER          -> {inode}

\* the cached inodes the function passes to bch2_inode_update_after_write
\* after its commit; the transaction wrote their keys
UpdatedInodes(fn, inode) ==
    CASE fn = "create"  -> {LockDir}
      [] fn = "tmpfile" -> {}
      [] fn = "link"    -> {LockDir, inode}
      [] fn = "unlink"  -> {LockDir, inode}
      [] fn = "rename"  -> {LockDir, LockFile, inode}
      [] OTHER          -> {inode}

LockFns ==
    {"create", "tmpfile", "link", "unlink", "rename", "setattr", "update_time"}

\* the inode argument: a file for link and unlink, the destination of the
\* rename of LockFile (LockFile itself when there is none), any inode for
\* bch2_setattr_nonsize and bch2_update_time
LockArgs(fn) ==
    CASE fn \in {"create", "tmpfile"} -> {LockDir}
      [] fn \in {"link", "unlink"}    -> {LockFile, LockOther}
      [] fn = "rename"                -> {LockFile, LockOther}
      [] OTHER                        -> LockInodes

\* a thread enters one of the functions
LockCall(t, fn, inode) ==
    /\ vfs.thr[t].pc = "idle"
    /\ vfs.calls < MaxLockCalls
    /\ inode \in LockArgs(fn)
    /\ vfs' = [vfs EXCEPT
                 !.calls = @ + 1,
                 !.thr[t] = [LockIdle EXCEPT
                               !.fn = fn,
                               !.pc = IF UpdateLocks(fn, inode) = {}
                                      THEN "begin" ELSE "lock",
                               !.want = UpdateLocks(fn, inode),
                               !.writes = UpdatedInodes(fn, inode)]]
    /\ HUnchanged

\* mutex_lock(&inode->ei_update_lock), or the next mutex of
\* bch2_lock_inodes, which locks in the order of the inodes
LockAcquire(t) ==
    /\ vfs.thr[t].pc = "lock"
    /\ LET i == CHOOSE x \in vfs.thr[t].want :
                    \A y \in vfs.thr[t].want : x <= y
       IN  /\ vfs.lock[i] = 0
           /\ vfs' = [vfs EXCEPT
                        !.lock[i] = t,
                        !.thr[t].want = @ \ {i},
                        !.thr[t].held = @ \cup {i},
                        !.thr[t].pc = IF vfs.thr[t].want = {i}
                                      THEN "begin" ELSE "lock"]
    /\ HUnchanged

\* bch2_trans_get and bch2_trans_begin
LockTransBegin(t) ==
    /\ vfs.thr[t].pc = "begin"
    /\ vfs' = [vfs EXCEPT !.thr[t].pc = "trans"]
    /\ HUnchanged

\* the transaction function and bch2_trans_commit: a restart is retried
\* with the mutexes held, another error leaves
LockTransCommit(t, out) ==
    /\ vfs.thr[t].pc = "trans"
    /\ out = BCH_ERR_transaction_restart => vfs.thr[t].tries < MaxLockTries
    /\ vfs' = [vfs EXCEPT
                 !.thr[t].tries = IF out = BCH_ERR_transaction_restart
                                  THEN @ + 1 ELSE @,
                 !.thr[t].pc = IF out = BCH_ERR_ok THEN "after_write"
                               ELSE IF out = BCH_ERR_transaction_restart
                               THEN "trans" ELSE "unlock"]
    /\ HUnchanged

\* bch2_inode_update_after_write of every inode written
LockAfterWrite(t) ==
    /\ vfs.thr[t].pc = "after_write"
    /\ vfs' = [vfs EXCEPT
                 !.cached = [i \in LockInodes |->
                               IF i \in vfs.thr[t].writes THEN t ELSE @[i]],
                 !.thr[t].pc = "unlock"]
    /\ HUnchanged

\* mutex_unlock, bch2_unlock_inodes
LockRelease(t) ==
    /\ vfs.thr[t].pc = "unlock"
    /\ vfs' = [vfs EXCEPT
                 !.lock = [i \in LockInodes |->
                             IF i \in vfs.thr[t].held THEN 0 ELSE @[i]],
                 !.thr[t] = LockIdle]
    /\ HUnchanged

InitLock ==
    /\ InitState([threads |-> {1}, updates |-> {}, reads |-> {},
                  maxops |-> 0, fails |-> {"none"}])
    /\ arg = [t \in {1} |-> NoArg]
    /\ may_go_rw = TRUE
    /\ ReadIdle
    /\ fs = FsEmpty
    /\ last = NoLast
    /\ vfs = [lock |-> [i \in LockInodes |-> 0],
              cached |-> [i \in LockInodes |-> 0],
              thr |-> [t \in LockThreads |-> LockIdle],
              calls |-> 0]

NextLock ==
    \/ \E t \in LockThreads, fn \in LockFns, inode \in LockInodes :
            LockCall(t, fn, inode)
    \/ \E t \in LockThreads : LockAcquire(t)
    \/ \E t \in LockThreads : LockTransBegin(t)
    \/ \E t \in LockThreads, out \in TransOutcomes : LockTransCommit(t, out)
    \/ \E t \in LockThreads : LockAfterWrite(t)
    \/ \E t \in LockThreads : LockRelease(t)

SpecLock == InitLock /\ [][NextLock]_vars

(***************************************************************************)
(* C29.  ei_update_lock and the transaction sections.                      *)
(***************************************************************************)
\* the thread is between bch2_trans_begin and the update of the cached
\* copies
InTransSection(t) == vfs.thr[t].pc \in {"trans", "after_write"}

\* C29: every operation holds the update_lock of each cached inode it
\* rewrites from before its transaction until the cached copy is updated,
\* and two operations that rewrite the same inode are never in their
\* transaction sections together.
C29_AsStated ==
    /\ \A t \in LockThreads :
          InTransSection(t) => vfs.thr[t].writes \subseteq vfs.thr[t].held
    /\ \A t1, t2 \in LockThreads :
          (t1 # t2 /\ InTransSection(t1) /\ InTransSection(t2))
              => vfs.thr[t1].writes \cap vfs.thr[t2].writes = {}

\* a link into the directory and a create in it are in their transactions
\* together, the link without the directory's update_lock
C29_LinkWithoutDirLock ==
    \E t1, t2 \in LockThreads :
        /\ vfs.thr[t1].fn = "link" /\ vfs.thr[t1].pc = "trans"
        /\ vfs.thr[t2].fn = "create" /\ vfs.thr[t2].pc = "trans"
        /\ LockDir \in vfs.thr[t1].writes \cap vfs.thr[t2].writes
        /\ vfs.lock[LockDir] = t2

\* every operation but the link holds the locks of what it rewrites, and
\* operations that share a lock are not in their sections together
C29_OthersHoldLocks ==
    /\ \A t \in LockThreads :
          (InTransSection(t) /\ vfs.thr[t].fn # "link")
              => vfs.thr[t].writes \subseteq vfs.thr[t].held
    /\ \A t \in LockThreads :
          (InTransSection(t) /\ vfs.thr[t].fn = "link")
              => vfs.thr[t].writes \ vfs.thr[t].held = {LockDir}
    /\ \A t1, t2 \in LockThreads :
          (t1 # t2) => vfs.thr[t1].held \cap vfs.thr[t2].held = {}

(***************************************************************************)
(* SpecPath: bch2_inum_to_path on the filesystems the namespace            *)
(* operations produce.  A printbuf is the sequence of its characters; a    *)
(* fault makes one read of the walk fail with an error the btree can       *)
(* return.                                                                 *)
(***************************************************************************)
\* iterations of the walk a fault can be at
MaxFaultStep == 2

\* iterations after which the walk is cut
MaxPathSteps == 6

\* the bytes of a name
NameBytes(name) ==
    CASE name = "a" -> <<"a">>
      [] name = "bb" -> <<"b", "b">>
      [] OTHER -> <<"l", "o", "n", "g", "n", "a", "m", "e">>

Disconnected ==
    <<"(", "d", "i", "s", "c", "o", "n", "n", "e", "c", "t", "e", "d", ")">>

\* what is in the printbuf before the call
PathPrefix == <<"x", ":">>

\* reverse_bytes(b, n)
reverse_bytes(b) == [i \in 1..Len(b) |-> b[Len(b) + 1 - i]]

prt_bytes_forward(out, b) == out \o b

\* prt_bytes_reversed(out, b, n), with room in the printbuf
prt_bytes_reversed(out, b) == out \o reverse_bytes(b)

NoFault == [what |-> "none", step |-> 0, err |-> BCH_ERR_ok]

PathFaults ==
    {NoFault} \cup
    [what : {"inode", "snapshot", "dirent"}, step : 1..MaxFaultStep,
     err : {"EIO", BCH_ERR_transaction_restart}]

\* the error a read of the walk returns: the fault's, ENOENT for a key that
\* is not there, 0 otherwise
PathRead(fault, what, step, there) ==
    IF fault.what = what /\ fault.step = step THEN fault.err
    ELSE IF ~there THEN "ENOENT"
    ELSE BCH_ERR_ok

\* the loop of bch2_inum_to_path from its iteration step on: the error it
\* left with and the printbuf
RECURSIVE InumToPathWalk(_, _, _, _, _)
InumToPathWalk(f, inum, out, fault, step) ==
    IF inum = <<BCACHEFS_ROOT_SUBVOL, BCACHEFS_ROOT_INO>>
    THEN [ret |-> BCH_ERR_ok, out |-> out, steps |-> step - 1]
    ELSE IF step > MaxPathSteps
    THEN [ret |-> "loop", out |-> out, steps |-> step - 1]
    ELSE
    LET r1 == PathRead(fault, "inode", step, inum \in DOMAIN f.inodes)
    IN  IF r1 # BCH_ERR_ok THEN [ret |-> r1, out |-> out, steps |-> step - 1]
        ELSE
        LET inode == f.inodes[inum]
            up == <<IF inode.bi_parent_subvol # 0 THEN inode.bi_parent_subvol
                    ELSE inum[1],
                    inode.bi_dir>>
            dkey == <<up[1], inode.bi_dir, inode.bi_dir_offset>>
            r2 == PathRead(fault, "snapshot", step, up[1] \in DOMAIN f.subvols)
            r3 == PathRead(fault, "dirent", step, dkey \in DOMAIN f.dirents)
        IN  IF inode.bi_dir = 0 /\ inode.bi_dir_offset = 0
            THEN [ret |-> "ENOENT_inode_no_backpointer", out |-> out,
                  steps |-> step - 1]
            ELSE IF r2 # BCH_ERR_ok
            THEN [ret |-> r2, out |-> out, steps |-> step - 1]
            ELSE IF r3 # BCH_ERR_ok
            THEN [ret |-> r3, out |-> out, steps |-> step - 1]
            ELSE InumToPathWalk(f, up,
                                prt_bytes_reversed(out, NameBytes(f.dirents[dkey].name))
                                    \o <<"/">>,
                                fault, step + 1)

\* bch2_inum_to_path(trans, inum, path): path is the printbuf with prefix in
\* it; allocation_failure is the printbuf's flag at the end
bch2_inum_to_path(f, inum, prefix, fault, allocation_failure) ==
    LET w == CHOOSE x \in {InumToPathWalk(f, inum, << >>, fault, 1)} : TRUE
        restart == w.ret = BCH_ERR_transaction_restart
        out == IF w.ret = BCH_ERR_ok
               THEN IF w.out = << >> THEN <<"/">> ELSE w.out
               ELSE IF restart THEN w.out
               ELSE prt_bytes_reversed(w.out, Disconnected)
    IN  IF restart THEN [ret |-> w.ret, path |-> prefix \o out, walk |-> w]
        ELSE IF allocation_failure
        THEN [ret |-> "ENOMEM", path |-> prefix \o out, walk |-> w]
        ELSE [ret |-> BCH_ERR_ok, path |-> prefix \o reverse_bytes(out),
              walk |-> w]

PathInums == (DOMAIN fs.inodes) \cup {<<BCACHEFS_ROOT_SUBVOL, 99>>}

\* a caller prints the path of an inode, the last of the operations
PathCall(inum, fault, allocation_failure) ==
    /\ last.n < MaxNsOps
    /\ \E r \in {bch2_inum_to_path(fs, inum, PathPrefix, fault,
                                   allocation_failure)} :
           last' = [op |-> "path", ret |-> r.ret, n |-> MaxNsOps,
                    inum |-> inum, fault |-> fault,
                    allocation_failure |-> allocation_failure,
                    path |-> r.path, walk |-> r.walk]
    /\ UNCHANGED <<core_read_vars, fs, vfs>>

NextPath ==
    \/ NextNs
    \/ \E inum \in PathInums, fault \in PathFaults,
          allocation_failure \in BOOLEAN :
            PathCall(inum, fault, allocation_failure)

SpecPath == InitNs /\ [][NextPath]_vars

(***************************************************************************)
(* C30.  bch2_inum_to_path.                                                *)
(***************************************************************************)
\* the last n names of the path of k by its back-pointers, each after a '/'
RECURSIVE PathTail(_, _, _)
PathTail(f, k, n) ==
    IF n = 0 THEN << >>
    ELSE PathTail(f, ParentDir(f, k), n - 1)
            \o <<"/">>
            \o NameBytes(f.dirents[<<ParentDir(f, k)[1], f.inodes[k].bi_dir,
                                     f.inodes[k].bi_dir_offset>>].name)

\* the number of back-pointers from k to the root
RECURSIVE PathDepth(_, _, _)
PathDepth(f, k, fuel) ==
    IF k = RootDir \/ fuel = 0 \/ k \notin DOMAIN f.inodes THEN 0
    ELSE 1 + PathDepth(f, ParentDir(f, k), fuel - 1)

\* the back-pointers of k lead to the root: every inode on the way is
\* there, has a back-pointer, and its dirent and subvolume are there
RECURSIVE ReachesRoot(_, _, _)
ReachesRoot(f, k, fuel) ==
    \/ k = RootDir
    \/ /\ fuel > 0
       /\ k \in DOMAIN f.inodes
       /\ Backpointer(f, k) # <<0, 0>>
       /\ ParentDir(f, k)[1] \in DOMAIN f.subvols
       /\ <<ParentDir(f, k)[1], f.inodes[k].bi_dir, f.inodes[k].bi_dir_offset>>
              \in DOMAIN f.dirents
       /\ ReachesRoot(f, ParentDir(f, k), fuel - 1)

\* what the call appended to the printbuf
Appended == SubSeq(last.path, Len(PathPrefix) + 1, Len(last.path))

PathCalled == last.op = "path"

\* the call's walk reached the root and no read failed
WalkConnected ==
    /\ ReachesRoot(fs, last.inum, MaxPathSteps)
    /\ \/ last.fault.what = "none"
       \/ last.fault.step > PathDepth(fs, last.inum, MaxPathSteps)

ConnectedPath ==
    IF last.inum = RootDir THEN <<"/">>
    ELSE PathTail(fs, last.inum, PathDepth(fs, last.inum, MaxPathSteps))

\* Disconnected, then the names the walk passed before it stopped
Contains(seq, sub) ==
    \E i \in 0..(Len(seq) - Len(sub)) : SubSeq(seq, i + 1, i + Len(sub)) = sub

\* C30 as stated: for an inode whose back-pointers reach the root the call
\* appends '/' and the names from the root down joined by '/'; when the
\* walk cannot go on it emits '(disconnected)'; and it returns success.
C30_AsStated ==
    PathCalled
        => /\ last.ret = BCH_ERR_ok
           /\ WalkConnected => Appended = ConnectedPath
           /\ ~WalkConnected => Contains(Appended, Disconnected)

\* C30: bch2_inum_to_path returns the error of a transaction restart with
\* nothing reversed and no '(disconnected)', and -ENOMEM when the printbuf
\* could not allocate; otherwise it returns 0, and has appended '/' and the
\* names from the root down joined by '/' for an inode whose back-pointers
\* reach the root (across subvolume roots by bi_parent_subvol), and
\* '(disconnected)' followed by the names it passed when an inode is
\* missing or has no back-pointer, or a dirent or a snapshot cannot be read.
C30_InumToPath ==
    PathCalled
        => /\ last.ret \in {BCH_ERR_ok, "ENOMEM", BCH_ERR_transaction_restart}
           /\ last.ret = BCH_ERR_transaction_restart
                => /\ last.fault.err = BCH_ERR_transaction_restart
                   /\ ~Contains(Appended, Disconnected)
           /\ (/\ ReachesRoot(fs, last.inum, MaxPathSteps)
               /\ last.fault.err = BCH_ERR_transaction_restart
               /\ last.fault.step <= PathDepth(fs, last.inum, MaxPathSteps))
                => last.ret = BCH_ERR_transaction_restart
           /\ last.ret = "ENOMEM"
                <=> (last.allocation_failure
                        /\ last.walk.ret # BCH_ERR_transaction_restart)
           /\ (last.ret = BCH_ERR_ok /\ WalkConnected)
                => Appended = ConnectedPath
           /\ (last.ret = BCH_ERR_ok /\ ~WalkConnected)
                => Appended
                    = Disconnected \o PathTail(fs, last.inum, last.walk.steps)

\* the path of a file two levels down, below a non-palindromic name
C30_Witness ==
    /\ PathCalled /\ last.ret = BCH_ERR_ok
    /\ WalkConnected
    /\ last.walk.steps = 2
    /\ Contains(Appended, <<"/", "l", "o", "n", "g", "n", "a", "m", "e">>)

\* the path of an inode of a child subvolume, across its root
C30_WitnessSubvol ==
    /\ PathCalled /\ last.ret = BCH_ERR_ok
    /\ WalkConnected
    /\ last.inum[1] # BCACHEFS_ROOT_SUBVOL
    /\ last.walk.steps = 2

\* a walk that stopped after one name: '(disconnected)' and the name
C30_WitnessDisconnected ==
    /\ PathCalled /\ last.ret = BCH_ERR_ok
    /\ ~WalkConnected
    /\ last.walk.steps = 1
    /\ Len(Appended) > Len(Disconnected)

\* a read returned a transaction restart, and so did the call
C30_WitnessRestart ==
    /\ PathCalled /\ last.ret = BCH_ERR_transaction_restart
    /\ ~last.allocation_failure

(***************************************************************************)
(* C31.  bch2_disk_accounting_mod: what each mode touches.                 *)
(***************************************************************************)
\* the live totals of the entries that have a non-zero live counter
LiveTotals(data) ==
    {<<data[i].pos, ReadCounters(data[i], FALSE)>> :
        i \in {j \in 1..Len(data) :
                ReadCounters(data[j], FALSE) # ZeroCounters(data[j].nr_counters)}}

\* the shadow totals of the entry at p, none when it has no shadow vector
ShadowOf(data, p) ==
    IF \E i \in 1..Len(data) : data[i].pos = p /\ data[i].v1 # NullVec
    THEN ReadCounters(data[CHOOSE i \in 1..Len(data) : data[i].pos = p], TRUE)
    ELSE << >>

\* the shadow totals of the entries that have a non-zero shadow counter
ShadowTotals(data) ==
    {<<data[i].pos, ReadCounters(data[i], TRUE)>> :
        i \in {j \in 1..Len(data) :
                /\ data[j].v1 # NullVec
                /\ ReadCounters(data[j], TRUE) # ZeroCounters(data[j].nr_counters)}}

\* the keys bch2_disk_accounting_mod builds from the updates of the threads
ModKeys == {accounting_key_init(NormalizePos(u.pos), u.d) : u \in cfg.updates}

\* gc = false: one more update at the end of the transaction's list, the
\* counter table as it was
C31_NormalStep(t) ==
    (pc'[t] = "queued" /\ nops'[t] = nops[t] + 1)
        => /\ Len(trans'[t]) = Len(trans[t]) + 1
           /\ SubSeq(trans'[t], 1, Len(trans[t])) = trans[t]
           /\ trans'[t][Len(trans'[t])] \in ModKeys
           /\ table' = table
           /\ gc_running' = gc_running

\* gc = true, from the call to the return: the transaction's list and the
\* live totals as they were; the shadow totals change in the one step that
\* adds, by the delta and at the key's entry
C31_GcStep(t) ==
    ((op[t].mode = "gc" \/ op'[t].mode = "gc") /\ pc'[t] # pc[t])
        => LET a == IF op[t].mode = "gc" THEN op[t].a ELSE op'[t].a
               adds == /\ pc[t] = "mod" /\ pc'[t] = "up_read"
                       /\ gc_running
           IN  /\ trans' = trans
               /\ LiveTotals(table') = LiveTotals(table)
               /\ PosSeq(table') # PosSeq(table) => pc[t] = "insert_locked"
               /\ IF adds
                  THEN /\ ShadowOf(table, a.p) # << >>
                       /\ ShadowOf(table', a.p)
                            = [i \in 1..Len(a.d) |->
                                (ShadowOf(table, a.p)[i] + a.d[i]) % CounterMod]
                       /\ \A i \in 1..Len(table) :
                            table[i].pos # a.p => table'[i] = table[i]
                  ELSE ShadowTotals(table') = ShadowTotals(table)

\* C31: bch2_disk_accounting_mod with gc = false queues exactly one
\* write-buffer update on the transaction and changes no counter, live or
\* shadow; with gc = true it leaves the live counters and the transaction's
\* update list unchanged and adds the delta to the shadow counters of the
\* key's entry only.
C31_ModFrame ==
    [][\A t \in cfg.threads : C31_NormalStep(t) /\ C31_GcStep(t)]_vars

\* a gc update has added its delta to the shadow counters while an update
\* of the same transaction is queued, and the live counters are all zero
C31_Witness ==
    \E t \in cfg.threads :
        /\ op[t].mode = "gc" /\ pc[t] = "up_read" /\ ret[t] = BCH_ERR_ok
        /\ trans[t] # << >>
        /\ ShadowTotals(table) # {}
        /\ LiveTotals(table) = {}

\* a queued update and an empty counter table
C31_WitnessQueued ==
    \E t \in cfg.threads :
        /\ pc[t] = "queued" /\ Len(trans[t]) = MaxTrans
        /\ table = << >>

(***************************************************************************)
(* C32.  The journal pass of bch2_accounting_read: keys already applied.   *)
(***************************************************************************)
\* the counter table has an entry for the key's position whose version is
\* the key's or a later one
EntryNotOlder(data, k) ==
    \E e \in 1..Len(data) : data[e].pos = k.p /\ data[e].bversion >= k.bversion

\* the accounting keys of js at p that are newer than the btree's key at p,
\* or all of them when the btree has none
FreshKey(k, p) ==
    /\ IsAccountingKey(k) /\ k.p = p
    /\ \A b \in 1..Len(btree) : btree[b].p = p => btree[b].bversion < k.bversion

\* the sum of the deltas of the keys of js from index i on that are in
\* keep, starting from v
RECURSIVE SumDeltas(_, _, _, _)
SumDeltas(js, keep, v, i) ==
    IF i > Len(js) THEN v
    ELSE SumDeltas(js, keep, IF i \in keep THEN VecAdd(v, js[i].d) ELSE v, i + 1)

\* the key under examination in the journal pass
ExaminedKey == journal_keys.data[acc_read.i]

\* the journal pass moves past the accounting key at i without a call
PassedOver ==
    /\ acc_read.pc = "journal" /\ acc_read'.pc = "journal"
    /\ acc_read.i <= journal_keys.nr
    /\ IsAccountingKey(ExaminedKey)

\* the journal pass calls accounting_read_key for the key at i
ReadKeyCalled ==
    /\ acc_read.pc = "journal" /\ acc_read'.pc = "journal_wait"

\* a key with an entry of its version or a later one goes nowhere: the
\* table, the other keys and the recovery thread's update are as they were;
\* any other accounting key is added to its successor or handed to
\* accounting_read_key, as it is then
C32_Step ==
    /\ (PassedOver /\ EntryNotOlder(table, ExaminedKey))
        => /\ journal_keys' = journal_keys
           /\ table' = table
           /\ op' = op /\ pc' = pc
    /\ (PassedOver /\ ~EntryNotOlder(table, ExaminedKey))
        => /\ table' = table
           /\ acc_read.i < journal_keys.nr
           /\ journal_keys'.data[acc_read.i + 1].d
                = VecAdd(journal_keys.data[acc_read.i + 1].d, ExaminedKey.d)
    /\ ReadKeyCalled
        => /\ ~EntryNotOlder(table, ExaminedKey)
           /\ op'[RecoveryThread].mode = "read"
           /\ op'[RecoveryThread].a.p = ExaminedKey.p
           /\ op'[RecoveryThread].a.d = ExaminedKey.d

\* after a first run: at every position the keys the pass applied carry
\* the deltas of the keys newer than the btree's key, each once, and the
\* counters are the btree's value and these deltas
C32_State ==
    RunDone(1) =>
        \A n \in 1..Len(acc_read.j0) :
            IsAccountingKey(acc_read.j0[n]) =>
                LET p == acc_read.j0[n].p
                    nr == Len(acc_read.j0[n].d)
                    zero == [j \in 1..nr |-> 0]
                    fresh == {i \in 1..Len(acc_read.j0) :
                                FreshKey(acc_read.j0[i], p)}
                    done == {i \in 1..Len(acc_read.applied) :
                                acc_read.applied[i].p = p}
                    sum == SumDeltas(acc_read.j0, fresh, zero, 1)
                IN  /\ SumDeltas(acc_read.applied, done, zero, 1) = sum
                    /\ fresh # {} => Cardinality(done) = 1
                    /\ fresh = {} => done = {}
                    /\ \E e \in 1..Len(table) :
                          /\ table[e].pos = p
                          /\ ReadCounters(table[e], FALSE)
                                = VecAdd(BtreeValue(p, nr), sum)

\* C32: in the journal pass of bch2_accounting_read a journal accounting
\* key whose counter-table entry has the key's version or a later one is
\* not added to the counters and not merged into the following key; a key
\* with no entry, or newer than its entry, is added to its successor or to
\* the counters, and reaches the counters exactly once.
C32_AppliedOnce == [](C32_State) /\ [][C32_Step]_vars

\* a btree key of 100 at version 2, then journal keys +10 at version 1 and
\* +20 at version 3: the counter is 120 and the pending key carries 20
C32_Witness ==
    /\ RunDone(1)
    /\ \E i \in 1..journal_keys.nr :
          /\ PendingKeys[i].p = disk_accounting_pos_to_bpos(PosNrInodes)
          /\ PendingKeys[i].d = <<20>> /\ PendingKeys[i].journal_seq = 2
    /\ \E e \in 1..Len(table) :
          /\ table[e].pos = disk_accounting_pos_to_bpos(PosNrInodes)
          /\ table[e].bversion = 2
          /\ ReadCounters(table[e], FALSE) = <<120>>

\* a journal key of the version of its btree key is passed over
C32_WitnessEqual ==
    /\ RunDone(1)
    /\ \E n \in 1..Len(acc_read.j0), b \in 1..Len(btree) :
          /\ IsAccountingKey(acc_read.j0[n])
          /\ btree[b].p = acc_read.j0[n].p
          /\ btree[b].bversion = acc_read.j0[n].bversion
          /\ \E e \in 1..Len(table) :
                table[e].pos = btree[b].p
                    /\ ReadCounters(table[e], FALSE) = btree[b].d

(***************************************************************************)
(* C33.  Runs of journal keys for one position.                            *)
(***************************************************************************)
\* the indices of the accounting keys of js at position p
RunAt(js, p) == {i \in 1..Len(js) : IsAccountingKey(js[i]) /\ js[i].p = p}

\* the keys of js at p are consecutive and none has an entry of its version
\* or a later one when the journal pass of a first run comes to it
FreshRun(js, p) ==
    /\ RunAt(js, p) # {}
    /\ \A i, j \in RunAt(js, p) : \A m \in i..j : m \in RunAt(js, p)
    /\ \A i \in RunAt(js, p) : FreshKey(js[i], p)

RunFirst(js, p) == CHOOSE i \in RunAt(js, p) : \A j \in RunAt(js, p) : i <= j
RunLast(js, p) == CHOOSE i \in RunAt(js, p) : \A j \in RunAt(js, p) : j <= i

\* accounting_read_key is called for a key only when the next key is not an
\* accounting key of its position: of a run only the last key is applied
C33_Step ==
    ReadKeyCalled
        => ~ /\ acc_read.i < journal_keys.nr
             /\ IsAccountingKey(journal_keys.data[acc_read.i + 1])
             /\ journal_keys.data[acc_read.i + 1].p = ExaminedKey.p

\* after a first run a fresh run has left one key, the last with the sum
\* of the run's deltas and the first key's journal sequence number, and the
\* counters have gone up from the btree's value by that sum
C33_State ==
    RunDone(1) =>
        \A n \in 1..Len(acc_read.j0) :
            LET js == acc_read.j0
                p == js[n].p
                zero == [j \in 1..Len(js[n].d) |-> 0]
                sum == SumDeltas(js, RunAt(js, p), zero, 1)
            IN  (IsAccountingKey(js[n]) /\ FreshRun(js, p))
                => /\ \E i \in 1..journal_keys.nr :
                        /\ IsAccountingKey(PendingKeys[i])
                        /\ PendingKeys[i].p = p
                        /\ PendingKeys[i].d = sum
                        /\ PendingKeys[i].journal_seq
                                = js[RunFirst(js, p)].journal_seq
                        /\ PendingKeys[i].bversion
                                = js[RunLast(js, p)].bversion
                        /\ \A j \in 1..journal_keys.nr :
                              (IsAccountingKey(PendingKeys[j])
                                    /\ PendingKeys[j].p = p) => j = i
                   /\ \E e \in 1..Len(table) :
                        /\ table[e].pos = p
                        /\ ReadCounters(table[e], FALSE)
                              = VecAdd(BtreeValue(p, Len(js[n].d)), sum)

\* C33: of a run of consecutive pending journal accounting keys for one
\* position, none already applied, bch2_accounting_read adds each key's
\* counters into the next and applies only the last, so the entry goes up
\* by the sum of the run's deltas, and the surviving key has the journal
\* sequence number of the first key of the run.
C33_RunsMerge == [](C33_State) /\ [][C33_Step]_vars

\* +10, +20, +30 at sequence numbers 1, 2, 3 on a btree value of 100: the
\* counter is 160, the surviving key carries 60 and sequence number 1
C33_Witness ==
    /\ RunDone(1)
    /\ Len(acc_read.j0) = 3
    /\ FreshRun(acc_read.j0, disk_accounting_pos_to_bpos(PosNrInodes))
    /\ Cardinality(RunAt(acc_read.j0, disk_accounting_pos_to_bpos(PosNrInodes))) = 3
    /\ journal_keys.nr = 1
    /\ PendingKeys[1].d = <<60>> /\ PendingKeys[1].journal_seq = 1
    /\ PendingKeys[1].bversion = 5
    /\ \E e \in 1..Len(table) : ReadCounters(table[e], FALSE) = <<160>>

(***************************************************************************)
(* C34.  bch2_evict_inode: when the inode leaves the table.                *)
(***************************************************************************)
\* thread t is in bch2_evict_inode for an inode with no links and
\* bch2_inode_rm has not returned
Deleting(t, o) ==
    /\ vfs.thr[t].ev = o
    /\ vfs.thr[t].pc \in {"evict", "evict_clear"}
    /\ vfs.obj[o].nlink = 0

DeletionInProgress(o) == \E t \in EThreads : Deleting(t, o)

\* a bch2_inode_hash_find call of a caller returns NULL
FindReturnsNull(t) ==
    /\ vfs.thr[t].fn = "find"
    /\ vfs.thr[t].pc \in {"find_lookup", "find_lock"}
    /\ vfs'.thr[t].pc = "idle" /\ vfs'.thr[t].ret = HNull

C34_State ==
    /\ \A o \in HObjs :
          \* with links: out of the table before the pages are truncated
          /\ (vfs.obj[o].truncated /\ vfs.obj[o].nlink > 0)
                => ~vfs.obj[o].intable /\ ~vfs.obj[o].hashed
          \* without links: in the table until bch2_inode_rm has returned
          /\ DeletionInProgress(o)
                => /\ vfs.obj[o].intable /\ vfs.obj[o].hashed
                   /\ ~vfs.obj[o].rm
                   /\ HashTable = {o}
          /\ (vfs.obj[o].removed > 0 /\ vfs.obj[o].nlink = 0) => vfs.obj[o].rm
    /\ ~vfs.bug

\* a lookup during the deletion finds the inode, and with i_lock held it is
\* hashed and freeing: the caller sleeps
C34_FindStep(t) ==
    \A o \in HObjs :
        DeletionInProgress(o) =>
            /\ (vfs.thr[t].pc = "find_lookup" /\ vfs'.thr[t] # vfs.thr[t])
                  => vfs'.thr[t].pc = "find_lock" /\ vfs'.thr[t].old = o
            /\ (vfs.thr[t].pc = "find_lock" /\ vfs.thr[t].old = o
                    /\ vfs'.thr[t] # vfs.thr[t])
                  => vfs'.thr[t].pc = "wait"
            /\ (vfs.thr[t].pc = "wait" /\ vfs.thr[t].old = o)
                  => vfs'.thr[t] = vfs.thr[t]
            /\ FindReturnsNull(t)
                  => /\ vfs.thr[t].pc = "find_lock"
                     /\ vfs.thr[t].old # o
                     /\ ~vfs.obj[vfs.thr[t].old].hashed

\* C34 as stated: an inode with links leaves the table before its pages
\* are truncated, an inode without links stays hashed until bch2_inode_rm
\* has finished, and while the deletion is in progress no
\* bch2_inode_hash_find for the key returns nothing and no second inode is
\* in the table.
C34_AsStated ==
    [](C34_State)
        /\ [][\A t \in EThreads :
                FindReturnsNull(t) => ~\E o \in HObjs : DeletionInProgress(o)]_vars

\* C34: in bch2_evict_inode an inode with links is out of the table before
\* its pages are truncated and an inode without links stays hashed and in
\* the table until bch2_inode_rm has returned; while that deletion is in
\* progress no second inode of the key is in the table, a
\* bch2_inode_hash_find that looks the key up finds the inode and sleeps
\* until the eviction is over, and only a call that had looked up an
\* earlier inode of the key, unhashed since, returns NULL.
C34_EvictOrder ==
    [](C34_State) /\ [][\A t \in EThreads : C34_FindStep(t)]_vars

\* a find asleep on the inode whose deletion is in progress, and an insert
\* of a second inode for the key that has not got into the table
C34_Witness ==
    \E o \in HObjs, t, u \in EThreads :
        /\ DeletionInProgress(o)
        /\ vfs.thr[t].fn = "find" /\ vfs.thr[t].pc = "wait" /\ vfs.thr[t].old = o
        /\ vfs.thr[u].fn = "insert" /\ vfs.thr[u].pc = "wait"

\* an inode with links is out of the table and its pages are not truncated
C34_WitnessCached ==
    \E o \in HObjs, t \in EThreads :
        /\ vfs.thr[t].ev = o /\ vfs.thr[t].pc = "evict_clear"
        /\ vfs.obj[o].nlink > 0 /\ ~vfs.obj[o].lost
        /\ vfs.obj[o].removed = 1 /\ ~vfs.obj[o].truncated

\* a find holds a pointer to an inode that is being evicted and is out of
\* the table, while a second inode of the key is being deleted
C34_WitnessStale ==
    \E o, x \in HObjs, t \in EThreads :
        /\ DeletionInProgress(o)
        /\ vfs.thr[t].fn = "find" /\ vfs.thr[t].pc = "find_lock"
        /\ vfs.thr[t].old = x /\ x # o
        /\ ~vfs.obj[x].hashed /\ ~vfs.obj[x].destroyed

(***************************************************************************)
(* C35.  bch2_accounting_mem_insert and compaction between its locks.      *)
(***************************************************************************)
\* thread t re-acquires the shared side at the end of a successful
\* bch2_accounting_mem_insert
InsertReturnsOk(t) ==
    /\ pc[t] = "ins_down_read" /\ pc'[t] = "mod"
    /\ ret[t] = BCH_ERR_ok

TableHasKey(data, p) == \E i \in 1..Len(data) : data[i].pos = p

\* C35 as stated: when bch2_accounting_mem_insert returns success the key
\* is in the counter table as the caller holds the shared side again,
\* whatever compaction did in between.
C35_AsStated ==
    [][\A t \in cfg.threads : InsertReturnsOk(t) => TableHasKey(table', op[t].a.p)]_vars

C35_Step ==
    /\ \A t \in cfg.threads :
          \* the key is in the table when the exclusive side is released
          /\ (pc[t] = "insert_locked" /\ pc'[t] = "ins_down_read"
                /\ ret'[t] = BCH_ERR_ok)
                => TableHasKey(table', op[t].a.p) /\ mark_writer = t
          \* the caller has the shared side and the table as it found it
          /\ InsertReturnsOk(t)
                => /\ t \in mark_readers' /\ mark_writer' = 0
                   /\ table' = table
          \* mem_mod_locked adds to the entry it finds, and goes to insert
          \* again when there is none
          /\ (pc[t] = "mod" /\ pc'[t] # pc[t] /\ ~TableHasKey(table, op[t].a.p))
                => /\ table' = table
                   /\ pc'[t] = "insert" \/ (op[t].mode = "gc" /\ ~gc_running)
    \* an entry leaves the table only in compaction, with no lock held and
    \* all its counters zero
    /\ \A i \in 1..Len(table) :
          ~TableHasKey(table', table[i].pos)
              => /\ pc' = pc
                 /\ mark_writer = 0 /\ mark_readers = {}
                 /\ accounting_mem_entry_is_zero(table[i])

\* C35: when bch2_accounting_mem_insert succeeds the key is in the counter
\* table as the exclusive side is released; bch2_accounting_mem_gc can take
\* the exclusive side before the insert has the shared side again and
\* remove the new entry, whose counters are all zero, so that the caller
\* holds the shared side without the key in the table; the caller looks
\* the key up again and inserts again before it adds.
C35_InsertThenCompaction == [][C35_Step]_vars

\* an insert returned success inside, compaction has emptied the table, and
\* the thread is about to take the shared side again
C35_Witness ==
    \E t \in cfg.threads :
        /\ pc[t] = "ins_down_read" /\ ret[t] = BCH_ERR_ok
        /\ mark_writer = 0
        /\ ~TableHasKey(table, op[t].a.p)

(***************************************************************************)
(* C36.  bch2_rename_trans: the destination directory's inode is written.  *)
(***************************************************************************)
\* the stored destination directory carries what the rename set in
\* dst_dir_u: the times of the rename and the size by mode
DstDirWritten ==
    /\ fs.inodes[last.dst_dir].bi_mtime = last.n
    /\ fs.inodes[last.dst_dir].bi_ctime = last.n
    /\ fs.inodes[last.dst_dir].bi_size =
            last.dst_size + DstSizeDelta(last.mode, last.dst_name)

\* C36 as stated: whenever the destination directory is another directory
\* than the source as a (subvol, inum) pair, a committed rename has written
\* the destination directory's inode with its new size and times, also
\* when the two directories have one inode number in two subvolumes.
C36_AsStated ==
    (RenameCommitted /\ last.src_dir # last.dst_dir) => DstDirWritten

\* the destination directory is written whenever its inode number is not
\* the source directory's
C36_WrittenUnlessSameInum ==
    (RenameCommitted /\ last.src_dir[2] # last.dst_dir[2]) => DstDirWritten

\* a subvolume was moved into the root directory of a snapshot, which has
\* the inode number of the source directory: the new dirent is there and
\* the directory's times and size are those from before the rename
C36_DstDirNotWritten ==
    /\ RenameCommitted
    /\ last.src_dir # last.dst_dir
    /\ last.src_dir[2] = last.dst_dir[2]
    /\ DirentKey(last.dst_dir, last.dst_name) \in DOMAIN fs.dirents
    /\ fs.inodes[last.dst_dir].bi_mtime < last.n
    /\ fs.inodes[last.dst_dir].bi_ctime < last.n
    /\ fs.inodes[last.src_dir].bi_mtime = last.n

(***************************************************************************)
(* The inode quota of __bch2_create and bch2_rename2: bch2_quota_acct      *)
(* inside the retry loops.  vfs holds the call, the count of inodes        *)
(* charged to the new inode's quota id (q_ino) and the count at entry.     *)
(***************************************************************************)
\* calls in one behaviour, and restarts in one call
MaxQuotaCalls == 3
MaxQuotaTries == 2

QuotaIdle == [fn |-> "none", pc |-> "idle", ret |-> BCH_ERR_ok, tries |-> 0,
              calls |-> 0, whiteout |-> FALSE, q_ino |-> 0, q_entry |-> 0,
              charged |-> 0]

\* bch2_quota_acct(c, qid, Q_INO, v, mode): KEY_TYPE_QUOTA_PREALLOC refuses
\* with -EDQUOT at the hard limit and charges nothing; the other modes
\* always charge
bch2_quota_acct(q_ino, v, over_limit) ==
    IF over_limit THEN [ret |-> "EDQUOT", q_ino |-> q_ino]
    ELSE [ret |-> BCH_ERR_ok, q_ino |-> q_ino + v]

QuotaReturn(r) == [vfs EXCEPT !.pc = "done", !.ret = r]

\* a call of __bch2_create, or of bch2_rename2 with or without
\* RENAME_WHITEOUT, up to its retry label
QuotaCall(fn, whiteout) ==
    /\ vfs.pc \in {"idle", "done"}
    /\ vfs.calls < MaxQuotaCalls
    /\ fn = "__bch2_create" => ~whiteout
    /\ vfs' = [vfs EXCEPT !.fn = fn, !.pc = "retry", !.ret = BCH_ERR_ok,
                          !.tries = 0, !.calls = @ + 1,
                          !.whiteout = whiteout, !.q_entry = vfs.q_ino,
                          !.charged = 0]
    /\ HUnchanged

\* __bch2_create, retry: bch2_subvol_is_ro_trans ?: bch2_create_trans ?:
\* bch2_quota_acct(.., Q_INO, 1, KEY_TYPE_QUOTA_PREALLOC); on an error
\* goto err_before_quota, which retries on a restart and else returns
\* through err_trans (make_bad_inode, iput: the eviction of a bad inode
\* leaves the quota alone)
CreateTrans(out, over_limit) ==
    /\ vfs.fn = "__bch2_create" /\ vfs.pc = "retry"
    /\ out = BCH_ERR_transaction_restart => vfs.tries < MaxQuotaTries
    /\ \E a \in {bch2_quota_acct(vfs.q_ino, 1, over_limit)} :
        vfs' = IF out = BCH_ERR_transaction_restart
               THEN [vfs EXCEPT !.tries = @ + 1]
               ELSE IF out # BCH_ERR_ok THEN QuotaReturn(out)
               ELSE IF a.ret # BCH_ERR_ok THEN QuotaReturn(a.ret)
               ELSE [vfs EXCEPT !.pc = "commit", !.q_ino = a.q_ino,
                                !.charged = @ + 1]
    /\ HUnchanged

\* bch2_subvolume_get ?: bch2_trans_commit; if (unlikely(ret)) {
\* bch2_quota_acct(.., Q_INO, -1, KEY_TYPE_QUOTA_WARN); err_before_quota: }
CreateCommit(out) ==
    /\ vfs.fn = "__bch2_create" /\ vfs.pc = "commit"
    /\ out = BCH_ERR_transaction_restart => vfs.tries < MaxQuotaTries
    /\ \E a \in {bch2_quota_acct(vfs.q_ino, -1, FALSE)} :
        vfs' = IF out = BCH_ERR_ok THEN QuotaReturn(BCH_ERR_ok)
               ELSE IF out = BCH_ERR_transaction_restart
               THEN [vfs EXCEPT !.pc = "retry", !.tries = @ + 1,
                                !.q_ino = a.q_ino]
               ELSE [QuotaReturn(out) EXCEPT !.q_ino = a.q_ino]
    /\ HUnchanged

\* bch2_rename2, retry: bch2_trans_begin; bch2_rename_trans;
\* if (unlikely(ret)) goto err_tx_restart
QuotaRenameTrans(out) ==
    /\ vfs.fn = "bch2_rename2" /\ vfs.pc = "retry"
    /\ out = BCH_ERR_transaction_restart => vfs.tries < MaxQuotaTries
    /\ vfs' = IF out = BCH_ERR_transaction_restart
              THEN [vfs EXCEPT !.tries = @ + 1]
              ELSE IF out # BCH_ERR_ok THEN QuotaReturn(out)
              ELSE [vfs EXCEPT !.pc = IF vfs.whiteout THEN "whiteout"
                                      ELSE "commit"]
    /\ HUnchanged

\* if (whiteout): bch2_trans_kmalloc_nomemzero; bch2_create_trans ?:
\* bch2_quota_acct(.., Q_INO, 1, KEY_TYPE_QUOTA_PREALLOC);
\* if (unlikely(ret)) goto err_tx_restart
QuotaWhiteout(out, over_limit) ==
    /\ vfs.fn = "bch2_rename2" /\ vfs.pc = "whiteout"
    /\ out = BCH_ERR_transaction_restart => vfs.tries < MaxQuotaTries
    /\ \E a \in {bch2_quota_acct(vfs.q_ino, 1, over_limit)} :
        vfs' = IF out = BCH_ERR_transaction_restart
               THEN [vfs EXCEPT !.pc = "retry", !.tries = @ + 1]
               ELSE IF out # BCH_ERR_ok THEN QuotaReturn(out)
               ELSE IF a.ret # BCH_ERR_ok THEN QuotaReturn(a.ret)
               ELSE [vfs EXCEPT !.pc = "commit", !.q_ino = a.q_ino,
                                !.charged = @ + 1]
    /\ HUnchanged

\* ret = bch2_trans_commit(trans, NULL, NULL, 0); if (unlikely(ret)) {
\* err_tx_restart: if (restart) goto retry; goto err; }: nothing between
\* the commit and retry or err touches the quota
QuotaRenameCommit(out) ==
    /\ vfs.fn = "bch2_rename2" /\ vfs.pc = "commit"
    /\ out = BCH_ERR_transaction_restart => vfs.tries < MaxQuotaTries
    /\ vfs' = IF out = BCH_ERR_ok THEN QuotaReturn(BCH_ERR_ok)
              ELSE IF out = BCH_ERR_transaction_restart
              THEN [vfs EXCEPT !.pc = "retry", !.tries = @ + 1]
              ELSE QuotaReturn(out)
    /\ HUnchanged

InitQuota ==
    /\ InitState([threads |-> {1}, updates |-> {}, reads |-> {},
                  maxops |-> 0, fails |-> {"none"}])
    /\ arg = [t \in {1} |-> NoArg]
    /\ may_go_rw = TRUE
    /\ ReadIdle
    /\ fs = FsEmpty
    /\ last = NoLast
    /\ vfs = QuotaIdle

NextQuota ==
    \/ \E fn \in {"__bch2_create", "bch2_rename2"}, whiteout \in BOOLEAN :
            QuotaCall(fn, whiteout)
    \/ \E out \in TransOutcomes \cup {"ENOMEM"}, over_limit \in BOOLEAN :
            CreateTrans(out, over_limit)
    \/ \E out \in TransOutcomes : CreateCommit(out)
    \/ \E out \in TransOutcomes : QuotaRenameTrans(out)
    \/ \E out \in TransOutcomes \cup {"ENOMEM"}, over_limit \in BOOLEAN :
            QuotaWhiteout(out, over_limit)
    \/ \E out \in TransOutcomes : QuotaRenameCommit(out)

SpecQuota == InitQuota /\ [][NextQuota]_vars

(***************************************************************************)
(* C37.  The inode quota charged for a new inode and transaction restarts. *)
(***************************************************************************)
QuotaReturned(fn) == vfs.pc = "done" /\ vfs.fn = fn
CreatesInode == vfs.fn = "__bch2_create" \/ vfs.whiteout

\* the count is the one at entry plus one after a success and the one at
\* entry after a failure
ChargedOnce ==
    vfs.q_ino = vfs.q_entry + (IF vfs.ret = BCH_ERR_ok THEN 1 ELSE 0)

\* C37 as stated: __bch2_create and bch2_rename2 with RENAME_WHITEOUT each
\* leave the inode quota count increased by exactly 1 when they succeed
\* and unchanged when they fail, for any number of transaction restarts of
\* the body or of the commit.
C37_AsStated ==
    (vfs.pc = "done" /\ CreatesInode) => ChargedOnce

\* __bch2_create charges once on success and nothing on failure, whatever
\* restarted; and bch2_rename2 keeps every charge it made: one for each
\* pass of the loop that reached the commit
C37_CreateChargedOnce ==
    /\ QuotaReturned("__bch2_create") => ChargedOnce
    /\ QuotaReturned("bch2_rename2") =>
            /\ vfs.q_ino = vfs.q_entry + vfs.charged
            /\ ~vfs.whiteout => vfs.charged = 0
            /\ (vfs.whiteout /\ vfs.tries = 0 /\ vfs.ret = BCH_ERR_ok)
                    => ChargedOnce

\* a rename with RENAME_WHITEOUT whose commit restarted once has succeeded
\* and the count is two above the one at entry
C37_WhiteoutChargedTwice ==
    /\ QuotaReturned("bch2_rename2") /\ vfs.whiteout
    /\ vfs.ret = BCH_ERR_ok /\ vfs.tries = 1
    /\ vfs.q_ino = vfs.q_entry + 2

\* a rename with RENAME_WHITEOUT failed in its commit and the count is
\* one above the one at entry
C37_WhiteoutFailedCharged ==
    /\ QuotaReturned("bch2_rename2") /\ vfs.whiteout
    /\ vfs.ret = "EIO" /\ vfs.tries = 0
    /\ vfs.q_ino = vfs.q_entry + 1

\* a create whose commit restarted twice has succeeded with one charge
C37_CreateRestarted ==
    /\ QuotaReturned("__bch2_create")
    /\ vfs.ret = BCH_ERR_ok /\ vfs.tries = MaxQuotaTries
    /\ vfs.charged = MaxQuotaTries + 1
    /\ vfs.q_ino = vfs.q_entry + 1

(***************************************************************************)
(* SpecRetry: a caller that runs bch2_inum_to_path again after a           *)
(* transaction restart, with the printbuf as the first run left it.        *)
(***************************************************************************)
\* lockrestart_do(trans, bch2_inum_to_path(trans, inum, &buf)): the second
\* run, with no failing read
PathRetry ==
    /\ last.op = "path"
    /\ last.ret = BCH_ERR_transaction_restart
    /\ \E r \in {bch2_inum_to_path(fs, last.inum, last.path, NoFault, FALSE)} :
           last' = [op |-> "path_retry", ret |-> r.ret, n |-> last.n,
                    inum |-> last.inum, fault |-> last.fault,
                    entry |-> last.path, path |-> r.path, walk |-> r.walk]
    /\ UNCHANGED <<core_read_vars, fs, vfs>>

NextRetry ==
    \/ NextPath
    \/ PathRetry

SpecRetry == InitNs /\ [][NextRetry]_vars

(***************************************************************************)
(* C38.  bch2_inum_to_path and a transaction restart part-way.             *)
(***************************************************************************)
PathRestarted == PathCalled /\ last.ret = BCH_ERR_transaction_restart
PathRetried == last.op = "path_retry"

\* what a run without failing reads appends for last.inum
UninterruptedPath ==
    IF ReachesRoot(fs, last.inum, MaxPathSteps) THEN ConnectedPath
    ELSE Disconnected \o PathTail(fs, last.inum, last.walk.steps)

\* C38 as stated: when bch2_inum_to_path returns a transaction restart the
\* printbuf is as it was on entry, and running it again with the same
\* printbuf gives the path of an uninterrupted run.
C38_AsStated ==
    /\ PathRestarted => last.path = PathPrefix
    /\ PathRetried => last.path = PathPrefix \o UninterruptedPath

\* on a restart the printbuf holds, after what was in it, the reversed
\* names of the iterations before the failing one, and the second run
\* appends its path after them; a restart in the first iteration leaves
\* the printbuf as it was
C38_PartialKept ==
    /\ PathRestarted
        => /\ last.walk.steps = last.fault.step - 1
           /\ Appended = reverse_bytes(PathTail(fs, last.inum, last.walk.steps))
           /\ last.fault.step = 1 => last.path = PathPrefix
    /\ PathRetried
        => /\ last.ret = BCH_ERR_ok
           /\ last.path = last.entry \o UninterruptedPath
           /\ last.fault.step = 1 => last.entry = PathPrefix

\* the dirent read of the second iteration restarted: the first name,
\* reversed, and its '/' are in the printbuf
C38_PartialLeft ==
    /\ PathRestarted
    /\ last.fault.step = 2
    /\ Appended = <<"e", "m", "a", "n", "g", "n", "o", "l", "/">>

\* the second run returned 0 with the connected path after the reversed
\* name of the first run
C38_RetryGarbled ==
    /\ PathRetried
    /\ last.ret = BCH_ERR_ok
    /\ ReachesRoot(fs, last.inum, MaxPathSteps)
    /\ Len(last.entry) > Len(PathPrefix)
    /\ last.path = last.entry \o ConnectedPath
    /\ Contains(last.path, <<"b", "b", "/", "/">>)

(***************************************************************************)
(* SpecWalk: the loop of bch2_inum_to_path, one iteration a step, on       *)
(* stored states whose back-pointers may be corrupt.  last holds the       *)
(* call: the inode it is at, the printbuf and its allocation_failure flag. *)
(***************************************************************************)
\* the bytes a printbuf can grow to before its allocation fails
MaxBuf == 24

\* the iterations counted
MaxWalkSteps == 4

\* /a and /a/longname directories, /a/longname/a a file
FsDeep ==
    CHOOSE r \in
        {bch2_create_trans(c2, <<1, 3>>, "a", "reg", 0).fs :
            c2 \in {bch2_create_trans(c1, <<1, 2>>, "longname", "dir", 0).fs :
                c1 \in {bch2_create_trans(FsRoot, RootDir, "a", "dir", 0).fs}}} :
        TRUE

WalkBase == {FsTree, FsSubvols, FsDeep}

\* f with the back-pointer of k replaced by the position of the dirent d
CorruptBackpointer(f, k, d) ==
    [f EXCEPT !.inodes[k].bi_dir = d[2], !.inodes[k].bi_dir_offset = d[3]]

\* the stored states: as the operations leave them, and with one
\* back-pointer naming another dirent
WalkStates ==
    WalkBase \cup
    UNION {{CorruptBackpointer(f, k, d) :
                k \in (DOMAIN f.inodes) \ {RootDir}, d \in DOMAIN f.dirents} :
           f \in WalkBase}

\* prt_bytes and prt_char on a printbuf that cannot grow beyond MaxBuf:
\* what does not fit is dropped and allocation_failure is set
PrtBytes(buf, b) ==
    [out |-> SubSeq(buf.out \o b, 1,
                    IF Len(buf.out) + Len(b) > MaxBuf THEN MaxBuf
                    ELSE Len(buf.out) + Len(b)),
     allocation_failure |->
        buf.allocation_failure \/ Len(buf.out) + Len(b) > MaxBuf]

\* one iteration of the loop at inum: the three reads, and on success the
\* name printed reversed, the '/', and the directory to go on with
WalkIteration(f, inum, buf, fault) ==
    LET r1 == PathRead(fault, "inode", 1, inum \in DOMAIN f.inodes)
    IN  IF r1 # BCH_ERR_ok THEN [ret |-> r1, inum |-> inum, buf |-> buf]
        ELSE
        LET inode == f.inodes[inum]
            up == <<IF inode.bi_parent_subvol # 0 THEN inode.bi_parent_subvol
                    ELSE inum[1],
                    inode.bi_dir>>
            dkey == <<up[1], inode.bi_dir, inode.bi_dir_offset>>
            r2 == PathRead(fault, "snapshot", 1, up[1] \in DOMAIN f.subvols)
            r3 == PathRead(fault, "dirent", 1, dkey \in DOMAIN f.dirents)
        IN  IF inode.bi_dir = 0 /\ inode.bi_dir_offset = 0
            THEN [ret |-> "ENOENT_inode_no_backpointer", inum |-> inum,
                  buf |-> buf]
            ELSE IF r2 # BCH_ERR_ok THEN [ret |-> r2, inum |-> up, buf |-> buf]
            ELSE IF r3 # BCH_ERR_ok THEN [ret |-> r3, inum |-> up, buf |-> buf]
            ELSE [ret |-> BCH_ERR_ok, inum |-> up,
                  buf |-> PrtBytes(PrtBytes(buf,
                            reverse_bytes(NameBytes(f.dirents[dkey].name))),
                            <<"/">>)]

\* after the loop and at out: the '/' of the root, -ENOMEM or the reversal
WalkOut(buf) ==
    IF buf.allocation_failure THEN [ret |-> "ENOMEM", out |-> buf.out]
    ELSE [ret |-> BCH_ERR_ok, out |-> reverse_bytes(buf.out)]

\* disconnected: a restart is returned, any other error prints
\* '(disconnected)' reversed and goes to out
WalkDisconnected(buf, err) ==
    IF err = BCH_ERR_transaction_restart THEN [ret |-> err, out |-> buf.out]
    ELSE WalkOut(PrtBytes(buf, reverse_bytes(Disconnected)))

WalkFaults ==
    {NoFault} \cup
    [what : {"inode", "snapshot", "dirent"}, step : {1},
     err : {"EIO", BCH_ERR_transaction_restart}]

\* bch2_inum_to_path(trans, inum, path) is called with an empty printbuf
WalkCall(inum) ==
    /\ last.op = "none"
    /\ last' = [op |-> "walk", pc |-> "loop", ret |-> BCH_ERR_ok, n |-> 0,
                start |-> inum, inum |-> inum, steps |-> 0,
                out |-> << >>, allocation_failure |-> FALSE]
    /\ UNCHANGED <<core_read_vars, fs, vfs>>

\* the loop's test and one iteration, or what follows the loop
WalkStep(fault) ==
    /\ last.op = "walk" /\ last.pc = "loop"
    /\ LET buf == [out |-> last.out,
                   allocation_failure |-> last.allocation_failure]
       IN  IF last.inum = <<BCACHEFS_ROOT_SUBVOL, BCACHEFS_ROOT_INO>>
           THEN \E o \in {WalkOut(IF buf.out = << >>
                                  THEN PrtBytes(buf, <<"/">>) ELSE buf)} :
                    last' = [last EXCEPT !.pc = "done", !.ret = o.ret,
                                         !.out = o.out]
           ELSE \E r \in {WalkIteration(fs, last.inum, buf, fault)} :
                    IF r.ret = BCH_ERR_ok
                    THEN last' = [last EXCEPT
                                    !.inum = r.inum,
                                    !.out = r.buf.out,
                                    !.allocation_failure = r.buf.allocation_failure,
                                    !.steps = IF @ < MaxWalkSteps THEN @ + 1
                                              ELSE @]
                    ELSE \E o \in {WalkDisconnected(r.buf, r.ret)} :
                            last' = [last EXCEPT !.pc = "done", !.ret = o.ret,
                                                 !.out = o.out]
    /\ UNCHANGED <<core_read_vars, fs, vfs>>

InitWalk ==
    /\ InitState([threads |-> {1}, updates |-> {}, reads |-> {},
                  maxops |-> 0, fails |-> {"none"}])
    /\ arg = [t \in {1} |-> NoArg]
    /\ may_go_rw = TRUE
    /\ ReadIdle
    /\ fs \in WalkStates
    /\ last = NoLast
    /\ vfs = VfsIdle

NextWalk ==
    \/ \E inum \in PathInums : WalkCall(inum)
    \/ \E fault \in WalkFaults : WalkStep(fault)

\* the thread that called keeps running
SpecWalk == InitWalk /\ [][NextWalk]_vars /\ WF_vars(NextWalk)

(***************************************************************************)
(* C39.  bch2_inum_to_path terminates.                                     *)
(***************************************************************************)
WalkReturned == last.op = "walk" /\ last.pc = "done"

\* the back-pointers from k come to the root, to a missing inode, to an
\* inode without back-pointer or to a missing dirent or subvolume within
\* fuel steps
RECURSIVE ChainEnds(_, _, _)
ChainEnds(f, k, fuel) ==
    \/ k = RootDir
    \/ k \notin DOMAIN f.inodes
    \/ Backpointer(f, k) = <<0, 0>>
    \/ ParentDir(f, k)[1] \notin DOMAIN f.subvols
    \/ <<ParentDir(f, k)[1], f.inodes[k].bi_dir, f.inodes[k].bi_dir_offset>>
            \notin DOMAIN f.dirents
    \/ fuel > 0 /\ ChainEnds(f, ParentDir(f, k), fuel - 1)

\* C39 as stated: for every starting inode and every stored state, also
\* when corrupt back-pointers form a cycle that never reaches the root,
\* bch2_inum_to_path eventually returns.
C39_AsStated == <>WalkReturned

\* a call on an inode whose chain of back-pointers ends returns, and
\* returns a path or '(disconnected)' unless a read restarted or the
\* printbuf could not grow
C39_ReturnsUnlessCycle ==
    (last.op = "walk" /\ ChainEnds(fs, last.start, MaxWalkSteps))
        ~> (/\ WalkReturned
            /\ last.ret \in {BCH_ERR_ok, BCH_ERR_transaction_restart, "ENOMEM"}
            /\ (last.ret = BCH_ERR_ok /\ ~ReachesRoot(fs, last.start, MaxWalkSteps))
                    => Contains(last.out, Disconnected))

\* the walk is in the loop at the inode it started from, after
\* MaxWalkSteps iterations, with the printbuf full
C39_WalkCycles ==
    /\ last.op = "walk" /\ last.pc = "loop"
    /\ last.steps = MaxWalkSteps
    /\ last.inum = last.start
    /\ last.allocation_failure
    /\ ~ChainEnds(fs, last.start, MaxWalkSteps)

(***************************************************************************)
(* SpecDepth: committed creates and renames, from a new filesystem and     *)
(* from one with a directory two levels down.                              *)
(***************************************************************************)
InitDepth ==
    /\ InitState([threads |-> {1}, updates |-> {}, reads |-> {},
                  maxops |-> 0, fails |-> {"none"}])
    /\ arg = [t \in {1} |-> NoArg]
    /\ may_go_rw = TRUE
    /\ ReadIdle
    /\ fs \in {FsRoot, FsDeep}
    /\ last = NoLast
    /\ vfs = VfsIdle

NextDepth ==
    \/ \E dir \in Dirs, name \in Names,
          kind \in {"reg", "dir", "tmpfile", "subvol", "snapshot"} :
            NsCreate(dir, name, kind)
    \/ \E src_dir \in Dirs, dst_dir \in Dirs, src_name \in Names,
          dst_name \in Names, exchange \in BOOLEAN, rs \in BOOLEAN,
          rd \in BOOLEAN :
            NsRename(src_dir, src_name, dst_dir, dst_name, exchange, rs, rd)

SpecDepth == InitDepth /\ [][NextDepth]_vars

(***************************************************************************)
(* C40.  bi_depth of directories.                                          *)
(***************************************************************************)
\* a directory that is not a subvolume root and is in a directory
ContainedDir(f, k) ==
    /\ f.inodes[k].dir
    /\ f.inodes[k].bi_subvol = 0
    /\ Backpointer(f, k) # <<0, 0>>
    /\ ParentDir(f, k) \in DOMAIN f.inodes

DepthFromParent(f, k) ==
    f.inodes[k].bi_depth = f.inodes[ParentDir(f, k)].bi_depth + 1

\* C40 as stated: after any sequence of committed creates and renames every
\* directory that is not a subvolume root has the depth of the directory
\* that contains it plus 1, the sub-directories of a directory moved to a
\* parent of another depth included.
C40_AsStated ==
    \A k \in DOMAIN fs.inodes :
        ContainedDir(fs, k) => DepthFromParent(fs, k)

\* the directories below k, by back-pointers
Below(f, k) ==
    {x \in DOMAIN f.inodes :
        x # k /\ f.inodes[x].bi_dir # 0 /\ IsAncestorOrSelf(f, k, x, MaxDepth)}

\* the inodes a committed rename moved
Moved ==
    {last.src_inum} \cup
    (IF last.mode = "BCH_RENAME_EXCHANGE" THEN {last.dst_inum} ELSE {})

\* the inodes the last operation moved
MovedNow == IF RenameCommitted THEN Moved ELSE {}

\* every step gives a created directory and a moved directory the depth of
\* its new parent plus 1, and leaves no other directory with a depth that
\* is not its parent's plus 1, unless the directory is below a moved
\* directory or it, or the inode a snapshot copied it from, was so before
C40_DepthOfMoved ==
    [][\A k \in DOMAIN fs'.inodes :
          (/\ ContainedDir(fs', k)
           /\ \A m \in MovedNow' : k \notin Below(fs', m)
           /\ \A x \in DOMAIN fs.inodes :
                  (x[2] = k[2] /\ ContainedDir(fs, x)) => DepthFromParent(fs, x))
              => DepthFromParent(fs', k)]_vars

\* /a with its sub-directory longname was moved into a new directory: /a
\* has depth 2 and longname, in it, has depth 2 as before
C40_SubdirDepthStale ==
    /\ RenameCommitted
    /\ last.src_dir # last.dst_dir
    /\ ContainedDir(fs, last.src_inum)
    /\ DepthFromParent(fs, last.src_inum)
    /\ fs.inodes[last.src_inum].bi_depth = 2
    /\ \E k \in Below(fs, last.src_inum) :
          /\ ContainedDir(fs, k)
          /\ ParentDir(fs, k) = last.src_inum
          /\ fs.inodes[k].bi_depth = 2

====
